---------------------------- MODULE Spec2Model ----------------------------
(***************************************************************************)
(* A model of the NHL MCP server (src/src/demo.ts, lines 50-1129): the     *)
(* tool handlers get-team, get-player, get-standings and                   *)
(* get-skater-leaders, each of which queries an ordered list of upstream   *)
(* endpoints through makeNHLRequest, parses the untyped JSON it gets and   *)
(* renders a list of text lines.                                           *)
(*                                                                         *)
(* A handler is an async function: it runs without interruption from one   *)
(* `await makeNHLRequest(...)` to the next.  One action of the model is    *)
(* one such run: the resumption of the handler with the outcome of the     *)
(* fetch in flight, up to the point where the next fetch has been issued   *)
(* or the handler has returned (or thrown).                                *)
(***************************************************************************)
EXTENDS Integers, Sequences, FiniteSets, TLC

VARIABLES
    pc,             \* where the running handler is suspended
    args,           \* the arguments of the running call
    upstream,       \* what the NHL API serves during this call, per URL
    fetches,        \* the URLs handed to fetch() by this call, in order
    lastOutcome,    \* what fetch() did on the most recent request
    idx,            \* position of the for-loop over endpoints / urls
    teamData,       \* get-team: the accumulator
    playerData,     \* get-player: the chosen record (null until found)
    standingsData,  \* get-standings: the document kept by the url loop
    result,         \* get-skater-leaders: the extracted result (null until found)
    errorMessages,  \* the errorMessages / errors array of the running handler
    statsData,      \* get-player: the game-log document
    teamName,       \* get-player: let teamName
    teamAbbrev,     \* get-player: let teamAbbrev
    lookupUrls,     \* get-player: the teamUrls still to be tried
    response,       \* the lines of the text returned to the caller
    returned,       \* the outcome of a helper function applied on its own
    previous,       \* the outcome of the call that ended before this one
    other,          \* a second call in progress at the same time
    timeZone,       \* the time zone of the process (its TZ environment)
    schedule        \* get-date-range-schedule: dates, formattedSchedule, totalGames

vars == <<pc, args, upstream, fetches, lastOutcome, idx, teamData, playerData,
          standingsData, result, errorMessages, statsData, teamName,
          teamAbbrev, lookupUrls, response, returned, previous, other,
          timeZone, schedule>>

\* What no step of the handlers of get-team, get-player, get-standings,
\* get-skater-leaders and get-team-roster touches.
sideVars == <<returned, previous, other, timeZone, schedule>>

-----------------------------------------------------------------------------
(***************************************************************************)
(* JavaScript values.  A JSON document is a value; a record of the program *)
(* (TeamResponse, PlayerResponse) is the field map of an object.           *)
(***************************************************************************)
Undef   == [t |-> "undefined"]
Null    == [t |-> "null"]
Str(s)  == [t |-> "string", s |-> s]
Num(n)  == [t |-> "number", n |-> n]
Bool(b) == [t |-> "boolean", b |-> b]
Obj(f)  == [t |-> "object", f |-> f]
Arr(e)  == [t |-> "array", e |-> e]

EmptyObject == Obj(<<>>)
EmptyArray  == Arr(<<>>)

Nullish(v) == v.t \in {"undefined", "null"}

\* ToBoolean: what `if (v)`, `!v`, `a || b` and `a && b` test.
Truthy(v) ==
    CASE v.t = "undefined" -> FALSE
      [] v.t = "null"      -> FALSE
      [] v.t = "string"    -> v.s /= ""
      [] v.t = "number"    -> v.n /= 0
      [] v.t = "boolean"   -> v.b
      [] OTHER             -> TRUE

Or(a, b)  == IF Truthy(a) THEN a ELSE b      \* a || b
And(a, b) == IF Truthy(a) THEN b ELSE a      \* a && b

\* v.k for a v that is neither undefined nor null (callers guard those:
\* there the access throws a TypeError).
Get(v, k) == IF v.t = "object" /\ k \in DOMAIN v.f THEN v.f[k] ELSE Undef

\* v?.k
OptGet(v, k) == IF Nullish(v) THEN Undef ELSE Get(v, k)

\* v[i] for an array v (0-based); the documents drawn below hold no string
\* or object where the code indexes.
Index(v, i) == IF v.t = "array" /\ i < Len(v.e) THEN v.e[i + 1] ELSE Undef

\* v.length
Length(v) ==
    CASE v.t = "array"  -> Num(Len(v.e))
      [] v.t = "string" -> Num(Len(v.s))
      [] OTHER          -> Get(v, "length")

\* a === b on the values drawn here (objects are never compared).
StrictEq(a, b) == a.t \notin {"object", "array"} /\ a = b

RECURSIVE JoinStr(_, _)
JoinStr(seq, sep) ==
    IF seq = <<>> THEN ""
    ELSE IF Len(seq) = 1 THEN seq[1]
    ELSE seq[1] \o sep \o JoinStr(Tail(seq), sep)

\* `${v}` and String(v).
RECURSIVE JsString(_)
JsString(v) ==
    CASE v.t = "undefined" -> "undefined"
      [] v.t = "null"      -> "null"
      [] v.t = "string"    -> v.s
      [] v.t = "number"    -> ToString(v.n)
      [] v.t = "boolean"   -> IF v.b THEN "true" ELSE "false"
      [] v.t = "array"     ->
            JoinStr([i \in 1..Len(v.e) |->
                        IF Nullish(v.e[i]) THEN "" ELSE JsString(v.e[i])], ",")
      [] OTHER             -> "[object Object]"

\* The outcome of a synchronous piece of code: a value, or an exception.
Ok(v)    == [ok |-> TRUE, v |-> v]
Throw(e) == [ok |-> FALSE, e |-> e]

\* Array.prototype.find with a callback that reads properties of the
\* element: the first matching element, undefined when there is none, a
\* TypeError when an element before the first match is null or undefined.
\* `hits` is the set of positions whose element matches.
FindIn(e, hits) ==
    LET stop == {i \in 1..Len(e) : Nullish(e[i])} \cup hits IN
    IF stop = {} THEN Ok(Undef)
    ELSE LET m == CHOOSE i \in stop : \A j \in stop : i <= j IN
         IF Nullish(e[m]) THEN Throw("TypeError") ELSE Ok(e[m])

-----------------------------------------------------------------------------
(***************************************************************************)
(* The transport.                                                          *)
(***************************************************************************)
NHL_WEB_API_BASE   == "https://api-web.nhle.com/v1"
NHL_STATS_API_BASE == "https://api.nhle.com/stats/rest/en"

\* What fetch(url) followed by response.json() can do.
NetworkError    == [kind |-> "network"]
HttpStatus(c)   == [kind |-> "status", status |-> c]
MalformedBody   == [kind |-> "malformed", status |-> 200]
JsonBody(doc)   == [kind |-> "json", status |-> 200, body |-> doc]

\* The ways an endpoint that is down fails.
FetchErrors == {NetworkError, HttpStatus(404), MalformedBody}

\* response.ok
ResponseOk(o) == o.status >= 200 /\ o.status <= 299

\* A request helper that lets the failure escape instead of swallowing it.
makeNHLRequestRethrows(o) ==
    IF o.kind = "network" THEN Throw("TypeError: fetch failed")
    ELSE IF ~ResponseOk(o) THEN Throw("Error: HTTP error!")
    ELSE IF o.kind = "malformed" THEN Throw("SyntaxError")
    ELSE Ok(o.body)

\* makeNHLRequest: the parsed body, or null for every failure; it never
\* throws (its own try/catch swallows the error after logging it).
makeNHLRequest(o) ==
    IF o.kind = "network" THEN Ok(Null)
    ELSE IF ~ResponseOk(o) THEN Ok(Null)
    ELSE IF o.kind = "malformed" THEN Ok(Null)
    ELSE Ok(o.body)

\* What the upstream holds for a URL during one call: "down", or a document.
Down == [t |-> "down"]

Served(url) == IF url \in DOMAIN upstream THEN upstream[url] ELSE Down

\* The outcomes fetch(url) can have against the current upstream.
Outcomes(url) ==
    IF Served(url) = Down THEN FetchErrors ELSE {JsonBody(Served(url))}

-----------------------------------------------------------------------------
(***************************************************************************)
(* get-team (demo.ts 185-422).                                             *)
(***************************************************************************)

\* String.prototype.toUpperCase, per character.
UpperChar(c) ==
    CASE c = "a" -> "A" [] c = "b" -> "B" [] c = "c" -> "C" [] c = "d" -> "D"
      [] c = "e" -> "E" [] c = "f" -> "F" [] c = "g" -> "G" [] c = "h" -> "H"
      [] c = "i" -> "I" [] c = "j" -> "J" [] c = "k" -> "K" [] c = "l" -> "L"
      [] c = "m" -> "M" [] c = "n" -> "N" [] c = "o" -> "O" [] c = "p" -> "P"
      [] c = "q" -> "Q" [] c = "r" -> "R" [] c = "s" -> "S" [] c = "t" -> "T"
      [] c = "u" -> "U" [] c = "v" -> "V" [] c = "w" -> "W" [] c = "x" -> "X"
      [] c = "y" -> "Y" [] c = "z" -> "Z" [] OTHER -> c

toUpperCase(chars) == [i \in 1..Len(chars) |-> UpperChar(chars[i])]

\* String.prototype.trim on a sequence of characters.
RECURSIVE trimStart(_)
trimStart(chars) ==
    IF chars /= <<>> /\ Head(chars) = " " THEN trimStart(Tail(chars)) ELSE chars

RECURSIVE trimEnd(_)
trimEnd(chars) ==
    IF chars /= <<>> /\ chars[Len(chars)] = " "
    THEN trimEnd(SubSeq(chars, 1, Len(chars) - 1))
    ELSE chars

trim(chars) == trimEnd(trimStart(chars))

\* const teamCode = teamAbbrev.toUpperCase().trim()
TeamCodeOf(abbrevChars) == JoinStr(trim(toUpperCase(abbrevChars)), "")

RosterUrl(teamCode)    == NHL_WEB_API_BASE \o "/roster/" \o teamCode \o "/current"
ClubStatsUrl(teamCode) == NHL_WEB_API_BASE \o "/club-stats/" \o teamCode \o "/now"
TeamInfoUrl            == NHL_STATS_API_BASE \o "/team"
StandingsNowUrl        == NHL_WEB_API_BASE \o "/standings/now"

\* Roster API parseTeam.
parseTeamRoster(data, teamCode) ==
    Ok([teamId       |-> Get(data, "teamId"),
        name         |-> Or(Get(data, "name"), Get(data, "fullName")),
        abbrev       |-> Str(teamCode),
        locationName |-> Get(data, "locationName"),
        teamName     |-> Get(data, "teamName"),
        division     |-> Get(data, "division"),
        conference   |-> Get(data, "conference")])

\* Club Stats API parseTeam.
parseTeamClubStats(data, teamCode) ==
    LET ts0 == Index(Get(data, "teamStats"), 0) IN
    Ok([teamId       |-> Or(Get(data, "teamId"), Get(data, "id")),
        name         |-> Or(Get(data, "teamName"), Get(data, "name")),
        abbrev       |-> Str(teamCode),
        locationName |-> Get(data, "locationName"),
        teamName     |-> Or(Get(data, "teamName"), Get(data, "name")),
        record       |->
            IF Truthy(And(Get(data, "teamStats"), ts0))
            THEN Obj([wins     |-> Or(Get(ts0, "wins"), Num(0)),
                      losses   |-> Or(Get(ts0, "losses"), Num(0)),
                      otLosses |-> Or(Get(ts0, "otLosses"), Num(0)),
                      points   |-> Or(Get(ts0, "points"), Num(0))])
            ELSE Undef])

\* The callback of teams.find in the Team Info API and Standings API
\* parsers, on an element that is neither null nor undefined.
MatchesTeamCode(t, teamCode) ==
    \/ StrictEq(Get(t, "triCode"), Str(teamCode))
    \/ StrictEq(Get(t, "abbrev"), Str(teamCode))
    \/ StrictEq(OptGet(Get(t, "teamAbbrev"), "default"), Str(teamCode))

\* teams.find(...) of both parsers: a TypeError when `teams` has no find
\* method (anything but an array).
FindTeam(teams, teamCode) ==
    IF teams.t /= "array" THEN Throw("TypeError")
    ELSE FindIn(teams.e, {i \in 1..Len(teams.e) :
                            /\ ~Nullish(teams.e[i])
                            /\ MatchesTeamCode(teams.e[i], teamCode)})

\* Team Info API parseTeam.
parseTeamTeamInfo(data, teamCode) ==
    LET Parsed(m) ==
         Ok([teamId       |-> Or(Get(m, "id"), Get(m, "teamId")),
             name         |-> Or(Get(m, "name"), Get(m, "fullName")),
             abbrev       |-> Str(teamCode),
             locationName |-> Get(m, "locationName"),
             teamName     |-> Get(m, "teamName"),
             division     |->
                Obj([name      |-> Or(Get(m, "divisionName"),
                                      And(Get(m, "division"),
                                          Get(Get(m, "division"), "name"))),
                     shortName |-> Or(Get(m, "divisionAbbrev"),
                                      And(Get(m, "division"),
                                          Get(Get(m, "division"), "nameShort")))]),
             conference   |->
                Obj([name      |-> Or(Get(m, "conferenceName"),
                                      And(Get(m, "conference"),
                                          Get(Get(m, "conference"), "name"))),
                     shortName |-> Or(Get(m, "conferenceAbbrev"),
                                      And(Get(m, "conference"),
                                          Get(Get(m, "conference"), "nameShort")))])])
        Found(found) ==
            IF ~found.ok THEN found
            ELSE IF ~Truthy(found.v) THEN Ok(<<>>)
            ELSE Parsed(found.v)
    IN Found(FindTeam(Or(Get(data, "data"), EmptyArray), teamCode))

\* The body of `for (const div of divisions)` of the Standings API parser
\* for one element: a TypeError, the team found, or undefined.
FindTeamInDivision(div, teamCode) ==
    IF Nullish(div) THEN Throw("TypeError")
    ELSE FindTeam(Or(Or(Get(div, "teamRecords"), Get(div, "teams")), EmptyArray),
                  teamCode)

\* The loop over the divisions: the first division that throws or holds
\* the team decides.  [ok, v, div]: v is the team (undefined when no
\* division holds it), div the division it was found in.
FindDivision(divisions, teamCode) ==
    IF divisions.t = "string" THEN [ok |-> TRUE, v |-> Undef, div |-> Undef]
    ELSE IF divisions.t /= "array" THEN [ok |-> FALSE, e |-> "TypeError"]
    ELSE LET Decided(r, m) ==
                 IF ~r[m].ok THEN [ok |-> FALSE, e |-> "TypeError"]
                 ELSE [ok |-> TRUE, v |-> r[m].v, div |-> divisions.e[m]]
             First(r, stop) ==
                 IF stop = {} THEN [ok |-> TRUE, v |-> Undef, div |-> Undef]
                 ELSE Decided(r, CHOOSE i \in stop : \A j \in stop : i <= j)
             Loop(r) ==
                 First(r, {i \in DOMAIN r : ~r[i].ok \/ Truthy(r[i].v)})
         IN Loop([i \in 1..Len(divisions.e) |->
                    FindTeamInDivision(divisions.e[i], teamCode)])

\* Standings API parseTeam.
parseTeamStandings(data, teamCode) ==
    LET Parsed(foundTeam, division, confAbbrev) ==
         Ok([teamId     |-> Or(Get(foundTeam, "teamId"), Get(foundTeam, "id")),
             name       |-> Or(And(Get(foundTeam, "teamName"),
                                   Get(Get(foundTeam, "teamName"), "default")),
                               Get(foundTeam, "name")),
             abbrev     |-> Str(teamCode),
             division   |->
                Obj([name      |-> Or(Get(division, "divisionName"),
                                      Str("Unknown Division")),
                     shortName |-> Or(Get(division, "divisionAbbrev"), Str(""))]),
             conference |->
                Obj([name      |->
                        IF StrictEq(confAbbrev, Str("E")) THEN Str("Eastern")
                        ELSE IF StrictEq(confAbbrev, Str("W")) THEN Str("Western")
                        ELSE Or(Get(division, "conferenceName"), Str("Unknown")),
                     shortName |-> Or(confAbbrev, Str(""))]),
             record     |->
                Obj([wins     |-> Or(Get(foundTeam, "wins"), Num(0)),
                     losses   |-> Or(Get(foundTeam, "losses"), Num(0)),
                     otLosses |-> Or(Get(foundTeam, "otLosses"), Num(0)),
                     points   |-> Or(Get(foundTeam, "points"), Num(0))])])
        Found(found) ==
            IF ~found.ok THEN Throw(found.e)
            ELSE IF ~Truthy(found.v) THEN Ok(<<>>)
            ELSE Parsed(found.v, found.div, Get(found.div, "conferenceAbbrev"))
    IN Found(FindDivision(Or(OptGet(Get(data, "standings"), "divisionStandings"),
                             Or(Get(data, "divisionStandings"),
                                Or(Get(data, "records"), EmptyArray))),
                          teamCode))

\* A list of sources that names the first source twice.
TeamEndpointsRepeated(teamCode) ==
    << [name |-> "Roster API",     url |-> RosterUrl(teamCode)],
       [name |-> "Roster API",     url |-> RosterUrl(teamCode)],
       [name |-> "Team Info API",  url |-> TeamInfoUrl],
       [name |-> "Standings API",  url |-> StandingsNowUrl] >>

\* const endpoints = [...]: the sources of get-team, in priority order.
TeamEndpoints(teamCode) ==
    << [name |-> "Roster API",     url |-> RosterUrl(teamCode)],
       [name |-> "Club Stats API", url |-> ClubStatsUrl(teamCode)],
       [name |-> "Team Info API",  url |-> TeamInfoUrl],
       [name |-> "Standings API",  url |-> StandingsNowUrl] >>

\* endpoint.parseTeam(data)
parseTeam(endpointName, data, teamCode) ==
    CASE endpointName = "Roster API"     -> parseTeamRoster(data, teamCode)
      [] endpointName = "Club Stats API" -> parseTeamClubStats(data, teamCode)
      [] endpointName = "Team Info API"  -> parseTeamTeamInfo(data, teamCode)
      [] OTHER                           -> parseTeamStandings(data, teamCode)

\* A field of a record of the program; undefined when the key is missing.
Field(rec, k) == IF k \in DOMAIN rec THEN rec[k] ELSE Undef

\* teamData = { ...teamData, ...Object.fromEntries(Object.entries(parsedTeam)
\*              .filter(([_, v]) => v !== undefined && v !== null)) }
MergeTeam(acc, parsedTeam) ==
    LET kept == {k \in DOMAIN parsedTeam : ~Nullish(parsedTeam[k])} IN
    [k \in (DOMAIN acc) \cup kept |-> IF k \in kept THEN parsedTeam[k] ELSE acc[k]]

\* The completeness check reduced to the name.
TeamCompleteNameOnly(acc) == Truthy(Field(acc, "name"))

\* if (teamData.name && teamData.division && teamData.conference) break
TeamComplete(acc) ==
    /\ Truthy(Field(acc, "name"))
    /\ Truthy(Field(acc, "division"))
    /\ Truthy(Field(acc, "conference"))

\* A minimum-data check that lets every accumulator pass.
TeamMissingNever(acc) == FALSE

\* if (!teamData.name): the minimum-data check after the loop.
TeamMissing(acc) == ~Truthy(Field(acc, "name"))

TeamNotFoundText(teamCode) ==
    "Failed to retrieve data for team: " \o teamCode
        \o ". The team code may be invalid or NHL API might be unavailable."

\* const teamFullName = teamData.name || (teamData.locationName &&
\*     teamData.teamName) ? `${locationName} ${teamName}` : `${teamCode} (name
\*     unavailable)`: the conditional operator binds weaker than ||.
teamFullName(acc, teamCode) ==
    IF Truthy(Or(Field(acc, "name"),
                 And(Field(acc, "locationName"), Field(acc, "teamName"))))
    THEN JsString(Field(acc, "locationName")) \o " " \o JsString(Field(acc, "teamName"))
    ELSE teamCode \o " (name unavailable)"

\* let teamInfo = [...]
TeamInfoLines(acc, teamCode) ==
    << "Team: " \o teamFullName(acc, teamCode),
       "Abbreviation: " \o teamCode,
       "Division: " \o JsString(Or(OptGet(Field(acc, "division"), "name"),
                                   Str("Not available"))),
       "Conference: " \o JsString(Or(OptGet(Field(acc, "conference"), "name"),
                                     Str("Not available"))) >>

\* The lines added from the club-stats document.
TeamStatsLines(stats) ==
    << "Stats:",
       "  Record: " \o JsString(Get(stats, "wins")) \o "-"
            \o JsString(Get(stats, "losses")) \o "-" \o JsString(Get(stats, "otLosses")),
       "  Points: " \o JsString(Get(stats, "points")),
       "  Goals For: " \o JsString(Get(stats, "goalsFor")),
       "  Goals Against: " \o JsString(Get(stats, "goalsAgainst")),
       "  Home Record: " \o JsString(Or(Get(stats, "homeRecord"),
                                        Or(Get(stats, "homeRecordL10"), Str("N/A")))),
       "  Away Record: " \o JsString(Or(Get(stats, "awayRecord"),
                                        Or(Get(stats, "awayRecordL10"), Str("N/A")))) >>

\* The lines added from teamData.record.
TeamRecordLines(record) ==
    << "Stats:",
       "  Record: " \o JsString(Get(record, "wins")) \o "-"
            \o JsString(Get(record, "losses")) \o "-" \o JsString(Get(record, "otLosses")),
       "  Points: " \o JsString(Get(record, "points")) >>

\* a > 0 for the values of .length
GreaterThanZero(v) == v.t = "number" /\ v.n > 0

\* Lines 378-411: the text of a successful get-team, or a TypeError when
\* teamStats[0] is null or undefined.
RenderTeam(acc, teamCode, stats) ==
    LET teamStats == OptGet(stats, "teamStats") IN
    IF /\ Truthy(stats)
       /\ Truthy(teamStats)
       /\ GreaterThanZero(Length(teamStats))
    THEN IF Nullish(Index(teamStats, 0)) THEN Throw("TypeError")
         ELSE Ok(TeamInfoLines(acc, teamCode) \o TeamStatsLines(Index(teamStats, 0)))
    ELSE IF Truthy(Field(acc, "record"))
    THEN Ok(TeamInfoLines(acc, teamCode) \o TeamRecordLines(Field(acc, "record")))
    ELSE Ok(TeamInfoLines(acc, teamCode))

-----------------------------------------------------------------------------
(***************************************************************************)
(* The documents the upstream may serve to get-team: for each endpoint a   *)
(* few shapes, well-formed and not, of the kind the parsers probe for.     *)
(***************************************************************************)
DivisionAtlantic  == Obj([name |-> Str("Atlantic"), shortName |-> Str("ATL")])
ConferenceEastern == Obj([name |-> Str("Eastern"), shortName |-> Str("E")])

RosterDocs ==
    { EmptyObject,
      Obj([name |-> Str("Toronto Maple Leafs")]),
      Obj([fullName |-> Str("Toronto Maple Leafs"), teamId |-> Num(10),
           locationName |-> Str("Toronto"), teamName |-> Str("Maple Leafs")]),
      Obj([name |-> Str("Toronto Maple Leafs"), division |-> DivisionAtlantic]),
      Obj([name |-> Str("Toronto Maple Leafs"), teamId |-> Num(10),
           division |-> DivisionAtlantic, conference |-> ConferenceEastern]),
      Obj([division |-> DivisionAtlantic, conference |-> ConferenceEastern]),
      Obj([teamId |-> Num(10), locationName |-> Str("Toronto"),
           teamName |-> Str("Maple Leafs"), division |-> Null]) }

TeamStatsRow ==
    Obj([wins |-> Num(3), losses |-> Num(0), otLosses |-> Num(1), points |-> Num(7),
         goalsFor |-> Num(12), goalsAgainst |-> Num(9)])

ClubStatsDocs ==
    { EmptyObject,
      Obj([teamName |-> Str("Maple Leafs"), locationName |-> Str("Toronto")]),
      Obj([name |-> Str("")]),
      Obj([id |-> Num(11), name |-> Str("Toronto Maple Leafs"),
           teamStats |-> Arr(<<TeamStatsRow>>)]),
      Obj([teamStats |-> Arr(<<EmptyObject>>)]),
      Obj([teamStats |-> Arr(<<Null>>)]) }

TeamInfoDocs ==
    { EmptyObject,
      Obj([data |-> Arr(<<Obj([triCode |-> Str("TOR"), id |-> Num(10),
                               fullName |-> Str("Toronto Maple Leafs")])>>)]),
      Obj([data |-> Arr(<<Obj([triCode |-> Str("BOS"), fullName |-> Str("Boston Bruins"),
                               divisionName |-> Str("Atlantic")]),
                          Obj([triCode |-> Str("TOR"), name |-> Str("Maple Leafs"),
                               divisionName |-> Str("Atlantic"),
                               conferenceName |-> Str("Eastern")])>>)]),
      Obj([data |-> Arr(<<Obj([abbrev |-> Str("TOR"),
                               division |-> Obj([name |-> Str("Atlantic")]),
                               conference |-> Obj([name |-> Str("Eastern")])])>>)]),
      Obj([data |-> Arr(<<Obj([triCode |-> Str("BOS"), fullName |-> Str("Boston Bruins")])>>)]),
      Obj([data |-> Obj([total |-> Num(32)])]) }

StandingsRowTOR ==
    Obj([teamAbbrev |-> Obj([default |-> Str("TOR")]),
         teamName |-> Obj([default |-> Str("Toronto Maple Leafs")]),
         teamId |-> Num(10), wins |-> Num(3), losses |-> Num(0),
         otLosses |-> Num(1), points |-> Num(7)])

StandingsRowBOS ==
    Obj([teamAbbrev |-> Obj([default |-> Str("BOS")]),
         teamName |-> Obj([default |-> Str("Boston Bruins")]), teamId |-> Num(6)])

TeamStandingsDocs ==
    { EmptyObject,
      Obj([standings |-> Obj([divisionStandings |-> Arr(<<
            Obj([divisionName |-> Str("Atlantic"), conferenceAbbrev |-> Str("E"),
                 teamRecords |-> Arr(<<StandingsRowBOS, StandingsRowTOR>>)])>>)])]),
      Obj([standings |-> Obj([divisionStandings |-> Arr(<<
            Obj([divisionName |-> Str("Atlantic"), conferenceAbbrev |-> Str("E"),
                 teamRecords |-> Arr(<<StandingsRowBOS>>)])>>)])]),
      Obj([standings |-> Arr(<<StandingsRowBOS, StandingsRowTOR>>)]),
      Obj([records |-> Arr(<<
            Obj([teams |-> Arr(<<Obj([abbrev |-> Str("TOR"), name |-> Str("Leafs")])>>)])>>)]),
      Obj([divisionStandings |-> Obj([total |-> Num(4)])]) }

\* teamAbbrev as the schema z.string().length(3) admits it, character by
\* character.
TeamAbbrevInputs == { <<"T", "O", "R">>, <<"t", "o", "r">> }

\* The upstreams of one get-team call: each URL down, or serving one of
\* its documents.
TeamUpstreams(teamCode) ==
    { (RosterUrl(teamCode) :> a) @@ (ClubStatsUrl(teamCode) :> b)
        @@ (TeamInfoUrl :> c) @@ (StandingsNowUrl :> d) :
        a \in RosterDocs \cup {Down}, b \in ClubStatsDocs \cup {Down},
        c \in TeamInfoDocs \cup {Down}, d \in TeamStandingsDocs \cup {Down} }

-----------------------------------------------------------------------------
(***************************************************************************)
(* The state between calls, and the steps of get-team.                     *)
(***************************************************************************)
NoOutcome == [kind |-> "none"]
NoResponse == <<>>

\* What lastOutcome keeps of an outcome: how the request ended.
OutcomeKind(o) == [kind |-> o.kind]

Idle ==
    /\ pc = "idle"
    /\ args = [tool |-> "none"]
    /\ upstream = <<>>
    /\ fetches = <<>>
    /\ lastOutcome = NoOutcome
    /\ idx = 0
    /\ teamData = <<>>
    /\ playerData = Null
    /\ standingsData = Null
    /\ result = Null
    /\ errorMessages = <<>>
    /\ statsData = Null
    /\ teamName = Undef
    /\ teamAbbrev = Undef
    /\ lookupUrls = <<>>
    /\ response = NoResponse

NoValue == [t |-> "none"]

Init ==
    /\ Idle
    /\ returned = NoValue
    /\ previous = NoValue
    /\ other = NoValue
    /\ timeZone = "UTC"
    /\ schedule = NoValue

teamCode == TeamCodeOf(args.teamAbbrev)

\* The handler entered with an accumulator that outlives the call.
GetTeamEnteredStale(abbrev, ups) ==
    /\ args' = [tool |-> "get-team", teamAbbrev |-> abbrev]
    /\ upstream' = ups
    /\ fetches' = <<TeamEndpoints(TeamCodeOf(abbrev))[1].url>>
    /\ idx' = 1
    /\ errorMessages' = <<>>
    /\ pc' = "team_source"
    /\ UNCHANGED <<lastOutcome, teamData, playerData, standingsData, result, statsData,
                   teamName, teamAbbrev, lookupUrls, response>>
    /\ UNCHANGED sideVars

\* The handler is entered and runs to its first await: the fetch of the
\* first endpoint.
GetTeamEntered(abbrev, ups) ==
    /\ args' = [tool |-> "get-team", teamAbbrev |-> abbrev]
    /\ upstream' = ups
    /\ fetches' = <<TeamEndpoints(TeamCodeOf(abbrev))[1].url>>
    /\ idx' = 1
    /\ teamData' = <<>>
    /\ errorMessages' = <<>>
    /\ pc' = "team_source"
    /\ UNCHANGED <<lastOutcome, playerData, standingsData, result, statsData,
                   teamName, teamAbbrev, lookupUrls, response>>
    /\ UNCHANGED sideVars

\* A call of get-team.
CallGetTeam ==
    /\ pc = "idle"
    /\ \E abbrev \in TeamAbbrevInputs :
         \E ups \in TeamUpstreams(TeamCodeOf(abbrev)) :
            GetTeamEntered(abbrev, ups)

\* The loop body without its break.
TeamIterationNoBreak(acc, errs, endpoint, code, o) ==
    LET Caught(e) ==
            [acc  |-> acc,
             errs |-> Append(errs, "Error with " \o endpoint.name \o ": " \o e),
             stop |-> FALSE]
        Merged(merged) ==
            [acc |-> merged, errs |-> errs, stop |-> FALSE]
        Parsed(parsed) ==
            IF ~parsed.ok THEN Caught(parsed.e)
            ELSE Merged(MergeTeam(acc, parsed.v))
        Resumed(req) ==
            IF ~req.ok THEN Caught(req.e)
            ELSE IF ~Truthy(req.v) THEN [acc |-> acc, errs |-> errs, stop |-> FALSE]
            ELSE Parsed(parseTeam(endpoint.name, req.v, code))
    IN Resumed(makeNHLRequest(o))

\* One iteration of `for (const endpoint of endpoints)`, from the
\* resumption after `await makeNHLRequest(endpoint.url)`: parse, merge,
\* completeness check, the catch clause; then the next iteration's fetch,
\* or the code after the loop up to the stats fetch or the NotFound return.
\* [acc, errs, stop]: the accumulator, the error messages and whether the
\* loop took its break.
TeamIteration(acc, errs, endpoint, code, o) ==
    LET Caught(e) ==
            [acc  |-> acc,
             errs |-> Append(errs, "Error with " \o endpoint.name \o ": " \o e),
             stop |-> FALSE]
        Merged(merged) ==
            [acc |-> merged, errs |-> errs, stop |-> TeamComplete(merged)]
        Parsed(parsed) ==
            IF ~parsed.ok THEN Caught(parsed.e)
            ELSE Merged(MergeTeam(acc, parsed.v))
        Resumed(req) ==
            IF ~req.ok THEN Caught(req.e)
            ELSE IF ~Truthy(req.v) THEN [acc |-> acc, errs |-> errs, stop |-> FALSE]
            ELSE Parsed(parseTeam(endpoint.name, req.v, code))
    IN Resumed(makeNHLRequest(o))

TeamSourceStep ==
    /\ pc = "team_source"
    /\ \E endpoints \in {TeamEndpoints(teamCode)} :
       \E o \in Outcomes(endpoints[idx].url) :
       \E it \in {TeamIteration(teamData, errorMessages, endpoints[idx], teamCode, o)} :
         /\ lastOutcome' = OutcomeKind(o)
         /\ teamData' = it.acc
         /\ errorMessages' = it.errs
         /\ IF ~it.stop /\ idx < Len(endpoints)
            THEN /\ idx' = idx + 1
                 /\ fetches' = Append(fetches, endpoints[idx + 1].url)
                 /\ pc' = "team_source"
                 /\ UNCHANGED response
            ELSE IF TeamMissing(it.acc)
            THEN /\ response' = <<TeamNotFoundText(teamCode)>>
                 /\ pc' = "returned"
                 /\ UNCHANGED <<idx, fetches>>
            ELSE /\ fetches' = Append(fetches, ClubStatsUrl(teamCode))
                 /\ pc' = "team_stats"
                 /\ UNCHANGED <<idx, response>>
    /\ UNCHANGED <<args, upstream, playerData, standingsData, result, statsData,
                   teamName, teamAbbrev, lookupUrls>>
    /\ UNCHANGED sideVars

\* The resumption after `await makeNHLRequest(statsUrl)`: the text is
\* built and returned.
TeamStatsStep ==
    /\ pc = "team_stats"
    /\ \E o \in Outcomes(ClubStatsUrl(teamCode)) :
         LET Returned(out) ==
                 /\ lastOutcome' = OutcomeKind(o)
                 /\ IF out.ok
                    THEN response' = out.v /\ pc' = "returned"
                    ELSE response' = NoResponse /\ pc' = "threw"
             Resumed(req) ==
                 Returned(IF req.ok THEN RenderTeam(teamData, teamCode, req.v) ELSE req)
         IN Resumed(makeNHLRequest(o))
    /\ UNCHANGED <<args, upstream, fetches, idx, teamData, playerData,
                   standingsData, result, errorMessages, statsData, teamName,
                   teamAbbrev, lookupUrls>>
    /\ UNCHANGED sideVars

-----------------------------------------------------------------------------
(***************************************************************************)
(* get-player (demo.ts 424-650).                                           *)
(***************************************************************************)
PlayerLandingUrl(playerId) ==
    NHL_WEB_API_BASE \o "/player/" \o ToString(playerId) \o "/landing"
StatsPlayerUrl(playerId) ==
    NHL_STATS_API_BASE \o "/player/" \o ToString(playerId)
GameLogUrl(playerId) ==
    NHL_WEB_API_BASE \o "/player/" \o ToString(playerId) \o "/game-log/now"

\* a + b where one operand is a string.
Concat(a, b) == Str(JsString(a) \o JsString(b))

\* Player Landing API parsePlayer: (data) => data
parsePlayerLanding(data) == Ok(data)

\* Stats API Player Info parsePlayer.
parsePlayerStats(data) ==
    LET dd == Get(data, "data") IN
    IF ~Truthy(data) \/ ~Truthy(dd) \/ StrictEq(Length(dd), Num(0))
    THEN Ok(EmptyObject)
    ELSE LET player == Index(dd, 0) IN
         IF Nullish(player) THEN Throw("TypeError")
         ELSE Ok(Obj([playerId      |-> Or(Get(player, "playerId"), Get(player, "id")),
                      firstName     |-> Get(player, "firstName"),
                      lastName      |-> Get(player, "lastName"),
                      fullName      |-> Concat(Concat(Get(player, "firstName"), Str(" ")),
                                               Get(player, "lastName")),
                      position      |-> Get(player, "positionCode"),
                      sweaterNumber |-> Get(player, "sweaterNumber"),
                      birthDate     |-> Get(player, "birthDate"),
                      birthCity     |-> Get(player, "birthCity"),
                      birthCountry  |-> Get(player, "birthCountry"),
                      height        |-> Get(player, "height"),
                      weight        |-> Get(player, "weight"),
                      teamId        |-> Get(player, "teamId"),
                      shootsCatches |-> Get(player, "shootsCatches"),
                      rookie        |-> Get(player, "rookie")]))

\* const endpoints = [...] of get-player, in priority order.
PlayerEndpoints(playerId) ==
    << [name |-> "Player Landing API",    url |-> PlayerLandingUrl(playerId)],
       [name |-> "Stats API Player Info", url |-> StatsPlayerUrl(playerId)] >>

parsePlayer(endpointName, data) ==
    IF endpointName = "Player Landing API"
    THEN parsePlayerLanding(data)
    ELSE parsePlayerStats(data)

\* parsedPlayer && (parsedPlayer.fullName ||
\*                  (parsedPlayer.firstName && parsedPlayer.lastName))
PlayerUsable(parsedPlayer) ==
    /\ Truthy(parsedPlayer)
    /\ Truthy(Or(Get(parsedPlayer, "fullName"),
                 And(Get(parsedPlayer, "firstName"), Get(parsedPlayer, "lastName"))))

\* One iteration of the endpoint loop of get-player, after the await.
\* [player, errs, stop]
PlayerIteration(player, errs, endpoint, o) ==
    LET req    == makeNHLRequest(o)
        data   == IF req.ok THEN req.v ELSE Null
        parsed == IF Truthy(data) THEN parsePlayer(endpoint.name, data) ELSE Ok(Null)
        thrown == IF ~req.ok THEN <<req.e>> ELSE IF ~parsed.ok THEN <<parsed.e>> ELSE <<>>
        found  == thrown = <<>> /\ Truthy(data) /\ PlayerUsable(parsed.v)
    IN [player |-> IF found THEN parsed.v ELSE player,
        errs   |-> IF thrown = <<>> THEN errs
                   ELSE Append(errs, "Error with " \o endpoint.name \o ": " \o thrown[1]),
        stop   |-> found]

PlayerNotFoundText(playerId) ==
    "Failed to retrieve data for player ID: " \o ToString(playerId)
        \o ". The player ID may be invalid or NHL API might be unavailable."

\* const teamUrls = [...]: the team directories of the team lookup.
TeamUrls == << StandingsNowUrl, TeamInfoUrl >>

UnknownTeam == Str("Unknown Team")

\* The inner loops over teamsData.standings.divisionStandings: every
\* division is visited in order, `break` leaves only the loop over its
\* teamRecords.  [ok, name, abbrev], folding from division i on.
LookupInRecords(records, teamId) ==
    IF records.t /= "array" THEN Throw("TypeError")
    ELSE FindIn(records.e, {i \in 1..Len(records.e) :
                              /\ ~Nullish(records.e[i])
                              /\ StrictEq(Get(records.e[i], "teamId"), teamId)})

RECURSIVE LookupInDivisions(_, _, _, _, _)
LookupInDivisions(divs, i, teamId, name, abbrev) ==
    IF i > Len(divs) THEN [ok |-> TRUE, name |-> name, abbrev |-> abbrev]
    ELSE IF Nullish(divs[i]) THEN [ok |-> FALSE, name |-> name, abbrev |-> abbrev]
    ELSE LET hit == LookupInRecords(Or(Get(divs[i], "teamRecords"), EmptyArray), teamId) IN
         IF ~hit.ok THEN [ok |-> FALSE, name |-> name, abbrev |-> abbrev]
         ELSE IF Nullish(hit.v)
         THEN LookupInDivisions(divs, i + 1, teamId, name, abbrev)
         ELSE LookupInDivisions(divs, i + 1, teamId,
                 Or(OptGet(Get(hit.v, "teamName"), "default"), UnknownTeam),
                 Or(OptGet(Get(hit.v, "teamAbbrev"), "default"), Str("")))

\* The body of `for (const url of teamUrls)` after the await, for a
\* document that is not null.  [ok, name, abbrev]: ok is FALSE when the body
\* throws (the assignments made before the throw are kept).
LookupInDirectory(teamsData, teamId, name, abbrev) ==
    LET ds == OptGet(Get(teamsData, "standings"), "divisionStandings")
        dd == Get(teamsData, "data")
    IN
    IF Truthy(ds)
    THEN IF ds.t = "array" THEN LookupInDivisions(ds.e, 1, teamId, name, abbrev)
         ELSE IF ds.t = "string" THEN [ok |-> TRUE, name |-> name, abbrev |-> abbrev]
         ELSE [ok |-> FALSE, name |-> name, abbrev |-> abbrev]
    ELSE IF Truthy(dd)
    THEN IF dd.t /= "array" THEN [ok |-> FALSE, name |-> name, abbrev |-> abbrev]
         ELSE LET hit == FindIn(dd.e, {i \in 1..Len(dd.e) :
                                         /\ ~Nullish(dd.e[i])
                                         /\ StrictEq(Get(dd.e[i], "id"), teamId)})
              IN IF ~hit.ok THEN [ok |-> FALSE, name |-> name, abbrev |-> abbrev]
                 ELSE IF ~Truthy(hit.v) THEN [ok |-> TRUE, name |-> name, abbrev |-> abbrev]
                 ELSE [ok |-> TRUE,
                       name |-> Or(Get(hit.v, "name"), Or(Get(hit.v, "fullName"), UnknownTeam)),
                       abbrev |-> Or(Get(hit.v, "triCode"), Or(Get(hit.v, "abbrev"), Str("")))]
    ELSE [ok |-> TRUE, name |-> name, abbrev |-> abbrev]

\* teamName = teamData.name || (teamData.locationName && teamData.teamName)
\*     ? `${teamData.locationName} ${teamData.teamName}` : teamAbbrev
TeamNameFromRoster(teamRoster, abbrev) ==
    IF Truthy(Or(Get(teamRoster, "name"),
                 And(Get(teamRoster, "locationName"), Get(teamRoster, "teamName"))))
    THEN Str(JsString(Get(teamRoster, "locationName")) \o " "
                \o JsString(Get(teamRoster, "teamName")))
    ELSE abbrev

\* const safeString = (value, defaultValue = "N/A") => ... of get-player.
safeString(value, defaultValue) ==
    IF Nullish(value) THEN defaultValue
    ELSE IF value.t = "string" THEN value.s
    ELSE IF value.t \in {"number", "boolean"} THEN JsString(value)
    ELSE defaultValue

\* let playerName
PlayerNameOf(player, playerId) ==
    IF Get(player, "fullName").t = "string" THEN Get(player, "fullName").s
    ELSE IF Get(player, "firstName").t = "string" /\ Get(player, "lastName").t = "string"
    THEN Get(player, "firstName").s \o " " \o Get(player, "lastName").s
    ELSE "Player #" \o ToString(playerId)

\* x || 0 inside a template.
OrZero(v) == JsString(Or(v, Num(0)))

GoalieLines(stats) ==
    << "Season Stats (Goalie):",
       "  Games Played: " \o OrZero(Get(stats, "gamesPlayed")),
       "  Wins: " \o OrZero(Get(stats, "wins")),
       "  Losses: " \o OrZero(Get(stats, "losses")),
       "  OT Losses: " \o OrZero(Get(stats, "otLosses")),
       "  Save Percentage: " \o OrZero(Get(stats, "savePctg")),
       "  Goals Against Average: " \o OrZero(Get(stats, "goalsAgainstAverage")),
       "  Shutouts: " \o OrZero(Get(stats, "shutouts")) >>

SkaterLines(stats) ==
    << "Season Stats (Skater):",
       "  Games Played: " \o OrZero(Get(stats, "gamesPlayed")),
       "  Goals: " \o OrZero(Get(stats, "goals")),
       "  Assists: " \o OrZero(Get(stats, "assists")),
       "  Points: " \o OrZero(Get(stats, "points")),
       "  Plus/Minus: " \o OrZero(Get(stats, "plusMinus")),
       "  Penalty Minutes: " \o OrZero(Get(stats, "pim")),
       "  Power Play Goals: " \o OrZero(Get(stats, "powerPlayGoals")),
       "  Game Winning Goals: " \o OrZero(Get(stats, "gameWinningGoals")),
       "  Shots: " \o OrZero(Get(stats, "shots")),
       "  Shooting Percentage: " \o
            (IF Truthy(Get(stats, "shootingPctg"))
             THEN JsString(Get(stats, "shootingPctg")) \o "%" ELSE "0%") >>

\* const playerInfo = [...]
PlayerInfoLines(player, playerId, name) ==
    LET birthCity    == safeString(Get(player, "birthCity"), "Unknown City")
        birthCountry == safeString(Get(player, "birthCountry"), "Unknown Country")
    IN
    << "Name: " \o PlayerNameOf(player, playerId),
       "Position: " \o safeString(Get(player, "position"), "Unknown"),
       "Jersey Number: " \o safeString(Get(player, "sweaterNumber"), "N/A"),
       "Team: " \o JsString(name),
       "Birth Date: " \o safeString(Get(player, "birthDate"), "Unknown"),
       "Birth Place: " \o birthCity \o
            (IF birthCountry /= "Unknown Country" THEN ", " \o birthCountry ELSE ""),
       "Height: " \o safeString(Get(player, "height"), "N/A"),
       "Weight: " \o (IF Truthy(Get(player, "weight"))
                      THEN safeString(Get(player, "weight"), "N/A") \o " lbs"
                      ELSE "N/A"),
       "Shoots/Catches: " \o safeString(Get(player, "shootsCatches"), "N/A"),
       "Rookie: " \o (IF Get(player, "rookie") = Bool(TRUE) THEN "Yes" ELSE "No") >>

\* Lines 573-648: the text of a successful get-player.
RenderPlayer(player, playerId, name, stats) ==
    PlayerInfoLines(player, playerId, name) \o
    (IF Truthy(stats) /\ Truthy(Get(stats, "stats"))
     THEN IF StrictEq(Get(player, "position"), Str("G"))
          THEN GoalieLines(Get(stats, "stats"))
          ELSE SkaterLines(Get(stats, "stats"))
     ELSE <<>>)

\* The documents the upstream may serve to get-player.
PlayerLandingDocs ==
    { EmptyObject,
      Obj([fullName |-> Str("Connor McDavid"), position |-> Str("C"),
           sweaterNumber |-> Num(97), teamId |-> Num(22), rookie |-> Bool(FALSE),
           birthCity |-> Obj([default |-> Str("Richmond Hill")])]),
      Obj([firstName |-> Str("Stuart"), lastName |-> Str("Skinner"),
           position |-> Str("G"), weight |-> Num(206)]),
      Obj([teamId |-> Num(22), position |-> Str("C"), sweaterNumber |-> Num(97)]) }

StatsPlayerDocs ==
    { Obj([data |-> EmptyArray]),
      Obj([data |-> Arr(<<Obj([id |-> Num(8478402), firstName |-> Str("Connor"),
                               lastName |-> Str("McDavid"), positionCode |-> Str("C"),
                               teamId |-> Num(22)])>>)]),
      Obj([data |-> Obj([total |-> Num(0)])]) }

GameLogDocs ==
    { EmptyObject,
      Obj([stats |-> Obj([gamesPlayed |-> Num(5), goals |-> Num(3), wins |-> Num(2),
                          shootingPctg |-> Num(0)])]) }

DirectoryRowEDM ==
    Obj([teamId |-> Num(22), teamName |-> Obj([default |-> Str("Edmonton Oilers")]),
         teamAbbrev |-> Obj([default |-> Str("EDM")])])

DirectoryDivision(rows) == Obj([divisionName |-> Str("Pacific"), teamRecords |-> Arr(rows)])

DirectoryOf(divs) == Obj([standings |-> Obj([divisionStandings |-> divs])])

PlayerStandingsDocs ==
    { EmptyObject,
      DirectoryOf(Arr(<<DirectoryDivision(<<StandingsRowBOS, DirectoryRowEDM>>)>>)),
      DirectoryOf(Arr(<<DirectoryDivision(<<
            Obj([teamId |-> Num(22), teamAbbrev |-> Obj([default |-> Str("EDM")])])>>)>>)),
      DirectoryOf(Arr(<<DirectoryDivision(<<DirectoryRowEDM>>),
                        DirectoryDivision(<<Obj([teamId |-> Num(22)])>>)>>)),
      DirectoryOf(Arr(<<DirectoryDivision(<<StandingsRowBOS>>)>>)),
      DirectoryOf(Obj([total |-> Num(4)])) }

PlayerTeamInfoDocs ==
    { Obj([data |-> Arr(<<Obj([id |-> Num(6), fullName |-> Str("Boston Bruins")]),
                          Obj([id |-> Num(22), fullName |-> Str("Edmonton Oilers"),
                               triCode |-> Str("EDM")])>>)]),
      Obj([data |-> Arr(<<Obj([id |-> Num(22), triCode |-> Str("EDM")])>>)]),
      Obj([data |-> Arr(<<Obj([id |-> Num(6), fullName |-> Str("Boston Bruins")])>>)]) }

PlayerRosterDocs ==
    { Obj([name |-> Str("Edmonton Oilers")]),
      Obj([locationName |-> Str("Edmonton"), teamName |-> Str("Oilers")]) }

\* playerId as the schema z.number() admits it.
PlayerIdInputs == { 8478402 }

PlayerUpstreams(playerId) ==
    { (PlayerLandingUrl(playerId) :> a) @@ (StatsPlayerUrl(playerId) :> b)
        @@ (GameLogUrl(playerId) :> c) @@ (StandingsNowUrl :> d)
        @@ (TeamInfoUrl :> e) @@ (RosterUrl("EDM") :> f) :
        a \in PlayerLandingDocs \cup {Down}, b \in StatsPlayerDocs \cup {Down},
        c \in GameLogDocs \cup {Down}, d \in PlayerStandingsDocs \cup {Down},
        e \in PlayerTeamInfoDocs \cup {Down}, f \in PlayerRosterDocs \cup {Down} }

GetPlayerEntered(playerId, ups) ==
    /\ args' = [tool |-> "get-player", playerId |-> playerId]
    /\ upstream' = ups
    /\ fetches' = <<PlayerEndpoints(playerId)[1].url>>
    /\ idx' = 1
    /\ playerData' = Null
    /\ errorMessages' = <<>>
    /\ pc' = "player_source"
    /\ UNCHANGED <<lastOutcome, teamData, standingsData, result, statsData,
                   teamName, teamAbbrev, lookupUrls, response>>
    /\ UNCHANGED sideVars

\* A call of get-player.
CallGetPlayer ==
    /\ pc = "idle"
    /\ \E playerId \in PlayerIdInputs :
         \E ups \in PlayerUpstreams(playerId) :
            GetPlayerEntered(playerId, ups)

\* One iteration of the endpoint loop; after the loop, the NotFound return
\* or the game-log fetch.
PlayerSourceStep ==
    /\ pc = "player_source"
    /\ LET endpoints == PlayerEndpoints(args.playerId) IN
       \E o \in Outcomes(endpoints[idx].url) :
         LET it == PlayerIteration(playerData, errorMessages, endpoints[idx], o) IN
         /\ lastOutcome' = OutcomeKind(o)
         /\ playerData' = it.player
         /\ errorMessages' = it.errs
         /\ IF ~it.stop /\ idx < Len(endpoints)
            THEN /\ idx' = idx + 1
                 /\ fetches' = Append(fetches, endpoints[idx + 1].url)
                 /\ pc' = "player_source"
                 /\ UNCHANGED response
            ELSE IF ~Truthy(it.player)
            THEN /\ response' = <<PlayerNotFoundText(args.playerId)>>
                 /\ pc' = "returned"
                 /\ UNCHANGED <<idx, fetches>>
            ELSE /\ fetches' = Append(fetches, GameLogUrl(args.playerId))
                 /\ pc' = "player_stats"
                 /\ UNCHANGED <<idx, response>>
    /\ UNCHANGED <<args, upstream, teamData, standingsData, result, statsData,
                   teamName, teamAbbrev, lookupUrls>>
    /\ UNCHANGED sideVars

\* The resumption after the game-log fetch: the team lookup starts when
\* playerData.teamId is truthy, else the text is returned.
PlayerStatsStep ==
    /\ pc = "player_stats"
    /\ \E o \in Outcomes(GameLogUrl(args.playerId)) :
         LET req  == makeNHLRequest(o)
             data == IF req.ok THEN req.v ELSE Null
         IN /\ lastOutcome' = OutcomeKind(o)
            /\ statsData' = data
            /\ teamName' = UnknownTeam
            /\ teamAbbrev' = Str("")
            /\ IF Truthy(Get(playerData, "teamId"))
               THEN /\ lookupUrls' = TeamUrls
                    /\ fetches' = Append(fetches, TeamUrls[1])
                    /\ pc' = "player_lookup"
                    /\ UNCHANGED response
               ELSE /\ response' = RenderPlayer(playerData, args.playerId, UnknownTeam, data)
                    /\ pc' = "returned"
                    /\ UNCHANGED <<lookupUrls, fetches>>
    /\ UNCHANGED <<args, upstream, idx, teamData, playerData, standingsData,
                   result, errorMessages>>
    /\ UNCHANGED sideVars

\* One iteration of `for (const url of teamUrls)` after the await; after
\* the loop, the roster fetch or the return.  An exception leaves the try
\* block: the text is returned with the names as they are.
PlayerLookupStep ==
    /\ pc = "player_lookup"
    /\ \E o \in Outcomes(Head(lookupUrls)) :
         LET req   == makeNHLRequest(o)
             data  == IF req.ok THEN req.v ELSE Null
             look  == IF ~req.ok
                      THEN [ok |-> FALSE, name |-> teamName, abbrev |-> teamAbbrev]
                      ELSE IF ~Truthy(data)
                      THEN [ok |-> TRUE, name |-> teamName, abbrev |-> teamAbbrev]
                      ELSE LookupInDirectory(data, Get(playerData, "teamId"),
                                             teamName, teamAbbrev)
             more  == /\ look.ok
                      /\ Len(lookupUrls) > 1
                      /\ ~(Truthy(data) /\ look.name /= UnknownTeam)
         IN /\ lastOutcome' = OutcomeKind(o)
            /\ teamName' = look.name
            /\ teamAbbrev' = look.abbrev
            /\ IF more
               THEN /\ lookupUrls' = Tail(lookupUrls)
                    /\ fetches' = Append(fetches, lookupUrls[2])
                    /\ pc' = "player_lookup"
                    /\ UNCHANGED response
               ELSE IF look.ok /\ Truthy(look.abbrev) /\ look.name = UnknownTeam
               THEN /\ lookupUrls' = <<>>
                    /\ fetches' = Append(fetches, RosterUrl(JsString(look.abbrev)))
                    /\ pc' = "player_roster"
                    /\ UNCHANGED response
               ELSE /\ lookupUrls' = <<>>
                    /\ response' = RenderPlayer(playerData, args.playerId, look.name, statsData)
                    /\ pc' = "returned"
                    /\ UNCHANGED fetches
    /\ UNCHANGED <<args, upstream, idx, teamData, playerData, standingsData,
                   result, errorMessages, statsData>>
    /\ UNCHANGED sideVars

\* The resumption after the roster fetch of the team lookup.
PlayerRosterStep ==
    /\ pc = "player_roster"
    /\ \E o \in Outcomes(fetches[Len(fetches)]) :
         LET req  == makeNHLRequest(o)
             data == IF req.ok THEN req.v ELSE Null
             name == IF Truthy(data) THEN TeamNameFromRoster(data, teamAbbrev) ELSE teamName
         IN /\ lastOutcome' = OutcomeKind(o)
            /\ teamName' = name
            /\ response' = RenderPlayer(playerData, args.playerId, name, statsData)
            /\ pc' = "returned"
    /\ UNCHANGED <<args, upstream, fetches, idx, teamData, playerData,
                   standingsData, result, errorMessages, statsData, teamAbbrev,
                   lookupUrls>>
    /\ UNCHANGED sideVars

-----------------------------------------------------------------------------
(***************************************************************************)
(* get-standings (demo.ts 652-831).                                        *)
(***************************************************************************)
\* const standingsUrls = [...], in priority order.
StandingsUrls ==
    << NHL_WEB_API_BASE \o "/standings/now",
       NHL_WEB_API_BASE \o "/standings",
       NHL_STATS_API_BASE \o "/standings/now" >>

StandingsFailedText ==
    "Failed to retrieve NHL standings - NHL API endpoints might be down"

StandingsNoDataText ==
    "Could not find standings data in the NHL API response. The API structure may have changed."

\* String.prototype.toLowerCase on the names drawn here.
toLowerCase(str) ==
    CASE str = "Atlantic" -> "atlantic"
      [] str = "Pacific"  -> "pacific"
      [] str = "Atl"      -> "atl"
      [] str = "Goals"    -> "goals"
      [] str = "plusMinus" -> "plusminus"
      [] OTHER            -> str

\* String.prototype.includes on the lower-case names drawn here.
includes(str, part) ==
    \/ part = ""
    \/ str = part
    \/ <<str, part>> \in { <<"atlantic", "atl">> }

\* Array.isArray(v) && v.length > 0
NonEmptyArray(v) == v.t = "array" /\ Len(v.e) > 0

\* The `for (const key in standingsData)` search for an array of
\* divisions.  The documents drawn hold at most one array-valued key, so
\* the order of the keys does not matter.
DeepDivisions(sd) ==
    LET keys == IF sd.t = "object"
                THEN {k \in DOMAIN sd.f : NonEmptyArray(sd.f[k])} ELSE {}
    IN IF keys = {} THEN Ok(EmptyArray)
       ELSE LET k == CHOOSE x \in keys : TRUE
                first == sd.f[k].e[1]
            IN IF Nullish(first) THEN Throw("TypeError")
               ELSE IF Truthy(Or(Get(first, "divisionName"),
                                 Or(Get(first, "teams"), Get(first, "teamRecords"))))
               THEN Ok(sd.f[k])
               ELSE Ok(EmptyArray)

\* Lines 693-727: let divisions.
FindDivisions(sd) ==
    LET direct ==
          IF Truthy(OptGet(Get(sd, "standings"), "divisionStandings"))
          THEN OptGet(Get(sd, "standings"), "divisionStandings")
          ELSE IF Truthy(Get(sd, "divisionStandings")) THEN Get(sd, "divisionStandings")
          ELSE IF NonEmptyArray(sd) THEN sd
          ELSE IF Truthy(Get(sd, "records")) THEN Get(sd, "records")
          ELSE EmptyArray
    IN IF StrictEq(Length(direct), Num(0)) THEN DeepDivisions(sd) ELSE Ok(direct)

\* s.padEnd(n) / s.padStart(n)
RECURSIVE Spaces(_)
Spaces(n) == IF n <= 0 THEN "" ELSE " " \o Spaces(n - 1)
padEnd(str, n)   == str \o Spaces(n - Len(str))
padStart(str, n) == Spaces(n - Len(str)) \o str

\* v?.toString() || '0'
ToStringOrZero(v) ==
    IF Nullish(v) THEN "0"
    ELSE IF JsString(v) = "" THEN "0" ELSE JsString(v)

\* One row of a division table; a TypeError for a team that is null or
\* undefined or whose abbreviation is no string.
StandingsTeamRow(team) ==
    IF Nullish(team) THEN Throw("TypeError")
    ELSE LET abbrev == Or(OptGet(Get(team, "teamAbbrev"), "default"), Str("N/A")) IN
         IF abbrev.t /= "string" THEN Throw("TypeError")
         ELSE Ok(padEnd(abbrev.s, 5) \o " | "
                 \o padStart(ToStringOrZero(Get(team, "gamesPlayed")), 2) \o " | "
                 \o padStart(ToStringOrZero(Get(team, "wins")), 2) \o "-"
                 \o padStart(ToStringOrZero(Get(team, "losses")), 2) \o "-"
                 \o padStart(ToStringOrZero(Get(team, "otLosses")), 2) \o " | "
                 \o padStart(ToStringOrZero(Get(team, "points")), 3) \o " pts | "
                 \o padStart(ToStringOrZero(Get(team, "goalsFor")), 3) \o " GF | "
                 \o padStart(ToStringOrZero(Get(team, "goalsAgainst")), 3) \o " GA | "
                 \o JsString(Or(Get(team, "streakCode"), Str("")))
                 \o JsString(Or(Get(team, "streakCount"), Str(""))))

\* The text of one division: the callback of divisions.map.
StandingsDivisionText(div) ==
    IF Nullish(div) THEN Throw("TypeError")
    ELSE LET teams == Or(Get(div, "teamRecords"), EmptyArray)
             title == JsString(Or(Get(div, "divisionName"), Str("Unknown")))
             conf  == Get(div, "conferenceAbbrev")
             conferenceName ==
                IF StrictEq(conf, Str("E")) THEN "Eastern"
                ELSE IF StrictEq(conf, Str("W")) THEN "Western"
                ELSE JsString(Or(conf, Str("Unknown")))
         IN
         IF StrictEq(Length(teams), Num(0))
         THEN Ok(title \o " Division: No team data available")
         ELSE IF teams.t /= "array" THEN Throw("TypeError")
         ELSE LET rows == [i \in 1..Len(teams.e) |-> StandingsTeamRow(teams.e[i])] IN
              IF \E i \in 1..Len(rows) : ~rows[i].ok THEN Throw("TypeError")
              ELSE Ok(JoinStr(<< title \o " Division (" \o conferenceName \o " Conference):",
                                 "Team  | GP | Record   | PTS | GF  | GA  | Streak",
                                 "------+----+----------+-----+-----+-----+-------" >>
                              \o [i \in 1..Len(rows) |-> rows[i].v] \o <<"">>, "\\n"))

\* divisions.filter(div => (div.divisionName || '').toLowerCase() <op> ...)
\* for the exact match (exact = TRUE) and the partial match.
FilterDivisions(divs, division, exact) ==
    LET nameOf(d) == Or(Get(d, "divisionName"), Str(""))
        bad == \E i \in 1..Len(divs) : Nullish(divs[i]) \/ nameOf(divs[i]).t /= "string"
        keep(d) == IF exact
                   THEN toLowerCase(nameOf(d).s) = toLowerCase(division)
                   ELSE includes(toLowerCase(nameOf(d).s), toLowerCase(division))
    IN IF bad THEN Throw("TypeError")
       ELSE Ok(SelectSeq(divs, keep))

\* Lines 690-829: the text for the document kept by the url loop.
\* `division` is the optional argument ("" when it is not given).
RenderStandings(sd, division) ==
    LET found == FindDivisions(sd) IN
    IF ~found.ok THEN found
    ELSE IF StrictEq(Length(found.v), Num(0)) THEN Ok(<<StandingsNoDataText>>)
    ELSE IF found.v.t /= "array" THEN Throw("TypeError")
    ELSE LET all == found.v.e
             exact   == FilterDivisions(all, division, TRUE)
             partial == FilterDivisions(all, division, FALSE)
             chosen  == IF division = "" THEN Ok(all)
                        ELSE IF ~exact.ok THEN exact
                        ELSE IF exact.v /= <<>> THEN exact
                        ELSE partial
         IN
         IF ~chosen.ok THEN chosen
         ELSE IF chosen.v = <<>>
         THEN Ok(<< "No standings found for division: " \o division
                     \o ". Available divisions: "
                     \o JoinStr([i \in 1..Len(all) |->
                                    IF Nullish(Get(all[i], "divisionName")) THEN ""
                                    ELSE JsString(Get(all[i], "divisionName"))], ", ") >>)
         ELSE LET texts == [i \in 1..Len(chosen.v) |-> StandingsDivisionText(chosen.v[i])] IN
              IF \E i \in 1..Len(texts) : ~texts[i].ok THEN Throw("TypeError")
              ELSE Ok([i \in 1..Len(texts) |-> texts[i].v])

\* The documents the upstream may serve to get-standings.
StandingsDivisionAtlantic ==
    Obj([divisionName |-> Str("Atlantic"), conferenceAbbrev |-> Str("E"),
         teamRecords |-> Arr(<<StandingsRowTOR, StandingsRowBOS>>)])

StandingsDocs ==
    { EmptyObject,
      Obj([standings |-> Obj([divisionStandings |-> Arr(<<StandingsDivisionAtlantic>>)])]),
      Obj([standings |-> Arr(<<StandingsRowTOR, StandingsRowBOS>>)]),
      Obj([records |-> Arr(<<StandingsDivisionAtlantic,
                             Obj([divisionName |-> Str("Pacific")])>>)]),
      Obj([divisionStandings |-> Obj([total |-> Num(4)])]) }

\* The optional argument `division` ("" when it is not given).
DivisionInputs == { "", "atlantic", "Atl", "Central" }

StandingsUpstreams ==
    { (StandingsUrls[1] :> a) @@ (StandingsUrls[2] :> b) @@ (StandingsUrls[3] :> c) :
        a \in StandingsDocs \cup {Down}, b \in StandingsDocs \cup {Down},
        c \in StandingsDocs \cup {Down} }

CallGetStandings ==
    /\ pc = "idle"
    /\ \E division \in DivisionInputs :
         \E ups \in StandingsUpstreams :
            /\ args' = [tool |-> "get-standings", division |-> division]
            /\ upstream' = ups
    /\ fetches' = <<StandingsUrls[1]>>
    /\ idx' = 1
    /\ standingsData' = Null
    /\ pc' = "standings_source"
    /\ UNCHANGED <<lastOutcome, teamData, playerData, result, errorMessages,
                   statsData, teamName, teamAbbrev, lookupUrls, response>>
    /\ UNCHANGED sideVars

\* One iteration of `for (const url of standingsUrls)` after the await;
\* after the loop, the rest of the handler.  The loop has no try/catch.
StandingsSourceStep ==
    /\ pc = "standings_source"
    /\ \E o \in Outcomes(StandingsUrls[idx]) :
         LET req  == makeNHLRequest(o)
             data == IF req.ok THEN req.v ELSE Null
             out  == IF Truthy(data) THEN RenderStandings(data, args.division)
                     ELSE Ok(<<StandingsFailedText>>)
         IN /\ lastOutcome' = OutcomeKind(o)
            /\ IF ~req.ok
               THEN /\ pc' = "threw"
                    /\ UNCHANGED <<standingsData, idx, fetches, response>>
               ELSE IF ~Truthy(data) /\ idx < Len(StandingsUrls)
               THEN /\ idx' = idx + 1
                    /\ fetches' = Append(fetches, StandingsUrls[idx + 1])
                    /\ pc' = "standings_source"
                    /\ UNCHANGED <<standingsData, response>>
               ELSE /\ standingsData' = IF Truthy(data) THEN data ELSE standingsData
                    /\ IF out.ok
                       THEN response' = out.v /\ pc' = "returned"
                       ELSE response' = NoResponse /\ pc' = "threw"
                    /\ UNCHANGED <<idx, fetches>>
    /\ UNCHANGED <<args, upstream, teamData, playerData, result, errorMessages,
                   statsData, teamName, teamAbbrev, lookupUrls>>
    /\ UNCHANGED sideVars

-----------------------------------------------------------------------------
(***************************************************************************)
(* get-skater-leaders (demo.ts 917-1118).                                  *)
(***************************************************************************)
\* The largest number of rows a leaders document of the upstream holds.
MaxLeaders == 2

WebLeadersUrl(category, limit) ==
    NHL_WEB_API_BASE \o "/skater-stats-leaders/current?categories=" \o category
        \o "&limit=" \o ToString(limit)

StatsDirectLeadersUrl(category, limit) ==
    NHL_STATS_API_BASE \o "/leaders/skaters/" \o category \o "?limit=" \o ToString(limit)

StatsFilteredLeadersUrl(category, limit) ==
    NHL_STATS_API_BASE \o "/skater/summary?limit=" \o ToString(limit) \o "&sort="
        \o category \o "&cayenneExp=seasonId=20242025"

\* c.categoryName?.toLowerCase() === category.toLowerCase(): a value, or a
\* TypeError when the property is neither a string nor null or undefined.
LowerEquals(v, category) ==
    IF Nullish(v) THEN Ok(FALSE)
    ELSE IF v.t /= "string" THEN Throw("TypeError")
    ELSE Ok(toLowerCase(v.s) = toLowerCase(category))

\* The callback of data.categories.find on one element.
CategoryMatches(c, category) ==
    IF Nullish(c) THEN Throw("TypeError")
    ELSE LET byName == LowerEquals(Get(c, "categoryName"), category) IN
         IF ~byName.ok THEN byName
         ELSE IF byName.v THEN Ok(TRUE)
         ELSE LowerEquals(Get(c, "categoryLabel"), category)

\* data.categories.find(...) || data.categories[0]
RECURSIVE FindCategory(_, _, _)
FindCategory(cats, i, category) ==
    IF i > Len(cats) THEN Ok(cats[1])
    ELSE LET m == CategoryMatches(cats[i], category) IN
         IF ~m.ok THEN m
         ELSE IF m.v THEN Ok(cats[i])
         ELSE FindCategory(cats, i + 1, category)

\* extract of the "web" format.
extractWeb(data, category) ==
    LET cats == Get(data, "categories") IN
    IF ~Truthy(data) \/ ~Truthy(cats) \/ StrictEq(Length(cats), Num(0)) THEN Ok(Null)
    ELSE IF cats.t /= "array" THEN Throw("TypeError")
    ELSE LET found == FindCategory(cats.e, 1, category) IN
         IF ~found.ok THEN found
         ELSE Ok(Obj([leaders |-> Or(Get(found.v, "leaders"), EmptyArray),
                      categoryLabel |-> Or(Get(found.v, "categoryLabel"), Str(category)),
                      season |-> Or(Get(data, "season"), Str("current"))]))

\* extract of the "stats-direct" format.
extractStatsDirect(data, category) ==
    IF ~Truthy(data) \/ ~Truthy(Get(data, "data")) THEN Ok(Null)
    ELSE Ok(Obj([leaders |-> Get(data, "data"),
                 categoryLabel |-> Or(Get(data, "description"), Str(category)),
                 season |-> Or(Get(data, "season"), Str("current"))]))

\* extract of the "stats-filtered" format.
extractStatsFiltered(data, category) ==
    IF ~Truthy(data) \/ ~Truthy(Get(data, "data")) THEN Ok(Null)
    ELSE Ok(Obj([leaders |-> Get(data, "data"),
                 categoryLabel |-> Str(category),
                 season |-> Str("2024-2025")]))

\* const urls = [...], in order of preference.
LeadersEndpoints(category, limit) ==
    << [url |-> WebLeadersUrl(category, limit), format |-> "web"],
       [url |-> StatsDirectLeadersUrl(category, limit), format |-> "stats-direct"],
       [url |-> StatsFilteredLeadersUrl(category, limit), format |-> "stats-filtered"] >>

extract(format, data, category) ==
    CASE format = "web"          -> extractWeb(data, category)
      [] format = "stats-direct" -> extractStatsDirect(data, category)
      [] OTHER                   -> extractStatsFiltered(data, category)

\* extracted && extracted.leaders && extracted.leaders.length > 0
HasLeaders(extracted) ==
    /\ Truthy(extracted)
    /\ Truthy(Get(extracted, "leaders"))
    /\ GreaterThanZero(Length(Get(extracted, "leaders")))

\* The body of one iteration of `for (const endpoint of urls)` after the
\* await: the new result and errors, and whether the loop breaks.
LeadersIteration(res, errs, endpoint, category, o) ==
    LET req  == makeNHLRequest(o)
        data == req.v
        ex   == extract(endpoint.format, data, category)
    IN IF ~req.ok
       THEN [result |-> res, stop |-> FALSE,
             errs |-> Append(errs, "Error with " \o endpoint.format \o " endpoint: " \o req.e)]
       ELSE IF ~Truthy(data) THEN [result |-> res, errs |-> errs, stop |-> FALSE]
       ELSE IF ~ex.ok
       THEN [result |-> res, stop |-> FALSE,
             errs |-> Append(errs, "Error with " \o endpoint.format \o " endpoint: " \o ex.e)]
       ELSE IF HasLeaders(ex.v) THEN [result |-> ex.v, errs |-> errs, stop |-> TRUE]
       ELSE [result |-> res, errs |-> errs, stop |-> FALSE]

LeadersFailedText(category) ==
    "Failed to retrieve " \o category \o " leaders. The NHL API endpoints may be unavailable or the category name may be invalid. Valid categories are: points, goals, assists, plusMinus, powerPlayGoals, gameWinningGoals, shots."

LeadersEmptyText(category) ==
    "No statistical leaders found for category: " \o category

\* let name = ... (lines 1057-1067), index counted from 0.
LeaderName(leader, index) ==
    IF Get(leader, "fullName").t = "string" THEN Get(leader, "fullName").s
    ELSE IF Get(leader, "skaterFullName").t = "string" THEN Get(leader, "skaterFullName").s
    ELSE IF Truthy(And(Get(leader, "firstName"), Get(leader, "lastName")))
    THEN safeString(Get(leader, "firstName"), "N/A") \o " "
            \o safeString(Get(leader, "lastName"), "N/A")
    ELSE "Player #" \o JsString(Or(Get(leader, "playerId"),
                                   Or(Get(leader, "id"), Num(index + 1))))

\* let team = ... (lines 1069-1079).
LeaderTeam(leader) ==
    IF Get(leader, "teamAbbrev").t = "string" THEN Get(leader, "teamAbbrev").s
    ELSE IF Get(leader, "teamAbbrevs").t = "string" THEN Get(leader, "teamAbbrevs").s
    ELSE IF Truthy(Get(leader, "team")) /\ Get(Get(leader, "team"), "triCode").t = "string"
    THEN Get(Get(leader, "team"), "triCode").s
    ELSE IF Truthy(Get(leader, "team")) /\ Get(Get(leader, "team"), "abbrev").t = "string"
    THEN Get(Get(leader, "team"), "abbrev").s
    ELSE "N/A"

\* let value = ... (lines 1081-1095); every branch reads leader[category]
\* or leader.value.
LeaderValue(leader, category) ==
    IF Get(leader, "value").t /= "undefined" THEN safeString(Get(leader, "value"), "N/A")
    ELSE IF Get(leader, category).t /= "undefined" THEN safeString(Get(leader, category), "N/A")
    ELSE "0"

\* The callback of leaders.map.
LeaderRow(leader, index, category) ==
    IF Nullish(leader) THEN Throw("TypeError")
    ELSE Ok(padStart(ToString(index + 1), 2) \o ". "
            \o padEnd(LeaderName(leader, index), 25) \o " | "
            \o padEnd(LeaderTeam(leader), 4) \o " | "
            \o LeaderValue(leader, category))

\* "".padEnd(n, "=")
RECURSIVE Rule(_)
Rule(n) == IF n <= 0 THEN "" ELSE "=" \o Rule(n - 1)

\* Lines 1019-1117: the lines of the text for the result of the loop.
RenderLeaders(res, category) ==
    IF ~Truthy(res) THEN Ok(<<LeadersFailedText(category)>>)
    ELSE LET leaders    == Get(res, "leaders")
             headerText == "NHL Leaders - " \o JsString(Get(res, "categoryLabel"))
                              \o " (" \o JsString(Get(res, "season")) \o ")"
         IN
         IF StrictEq(Length(leaders), Num(0)) THEN Ok(<<LeadersEmptyText(category)>>)
         ELSE IF leaders.t /= "array" THEN Throw("TypeError")
         ELSE LET rows == [i \in 1..Len(leaders.e) |->
                              LeaderRow(leaders.e[i], i - 1, category)] IN
              IF \E i \in 1..Len(rows) : ~rows[i].ok THEN Throw("TypeError")
              ELSE Ok(<<headerText, Rule(Len(headerText))>>
                      \o [i \in 1..Len(rows) |-> rows[i].v])

\* The documents the upstream may serve to get-skater-leaders.
WebLeaderRows ==
    { Obj([fullName |-> Str("Auston Matthews"), teamAbbrev |-> Str("TOR"), value |-> Num(69)]),
      Obj([firstName |-> Str("Sam"), lastName |-> Str("Reinhart"),
           team |-> Obj([triCode |-> Str("FLA")]), value |-> Num(57)]) }

StatsLeaderRows ==
    { Obj([skaterFullName |-> Str("Zach Hyman"), teamAbbrevs |-> Str("EDM"), goals |-> Num(54)]),
      Obj([playerId |-> Num(8478402), points |-> Num(132)]) }

\* Every list of at most MaxLeaders rows.
LeaderLists(rows) == UNION { [1..k -> rows] : k \in 0..MaxLeaders }

WebLeadersDocs ==
    { Obj([categories |-> Arr(<< Obj([categoryName |-> Str("goals"),
                                     categoryLabel |-> Str("Goals"),
                                     leaders |-> Arr(l)]) >>),
           season |-> Num(20242025)]) : l \in LeaderLists(WebLeaderRows) }
    \cup { EmptyObject,
           Obj([categories |-> Arr(<<Null>>)]),
           Obj([categories |-> Arr(<< Obj([categoryName |-> Str("assists"),
                                          leaders |-> Arr(<<CHOOSE r \in WebLeaderRows : TRUE>>)]) >>)]) }

StatsDirectLeadersDocs ==
    { Obj([data |-> Arr(l), description |-> Str("Goals")]) : l \in LeaderLists(StatsLeaderRows) }
    \cup { EmptyObject, Obj([data |-> Str("error")]) }

StatsFilteredLeadersDocs ==
    { Obj([data |-> Arr(l)]) : l \in LeaderLists(StatsLeaderRows) }
    \cup { EmptyObject, Obj([data |-> Arr(<<Null>>)]) }

\* The arguments the schema admits: category of the enum, 1 <= limit <= 50.
CategoryInputs == { "goals" }
LimitInputs == { 1, 10 }

LeadersUpstreams(category, limit) ==
    { (WebLeadersUrl(category, limit) :> a)
        @@ (StatsDirectLeadersUrl(category, limit) :> b)
        @@ (StatsFilteredLeadersUrl(category, limit) :> c) :
        a \in WebLeadersDocs \cup {Down},
        b \in StatsDirectLeadersDocs \cup {Down},
        c \in StatsFilteredLeadersDocs \cup {Down} }

GetSkaterLeadersEntered(category, limit, ups) ==
    /\ args' = [tool |-> "get-skater-leaders", category |-> category, limit |-> limit]
    /\ upstream' = ups
    /\ fetches' = <<LeadersEndpoints(category, limit)[1].url>>
    /\ idx' = 1
    /\ result' = Null
    /\ errorMessages' = <<>>
    /\ pc' = "leaders_source"
    /\ UNCHANGED <<lastOutcome, teamData, playerData, standingsData, statsData,
                   teamName, teamAbbrev, lookupUrls, response>>
    /\ UNCHANGED sideVars

\* A call of get-skater-leaders.
CallGetSkaterLeaders ==
    /\ pc = "idle"
    /\ \E category \in CategoryInputs, limit \in LimitInputs :
         \E ups \in LeadersUpstreams(category, limit) :
            GetSkaterLeadersEntered(category, limit, ups)

\* One iteration of `for (const endpoint of urls)` after the await; after
\* the loop, the rest of the handler.
LeadersSourceStep ==
    /\ pc = "leaders_source"
    /\ LET urls == LeadersEndpoints(args.category, args.limit) IN
       \E o \in Outcomes(urls[idx].url) :
         LET it  == LeadersIteration(result, errorMessages, urls[idx], args.category, o)
             out == RenderLeaders(it.result, args.category)
         IN /\ lastOutcome' = OutcomeKind(o)
            /\ result' = it.result
            /\ errorMessages' = it.errs
            /\ IF ~it.stop /\ idx < Len(urls)
               THEN /\ idx' = idx + 1
                    /\ fetches' = Append(fetches, urls[idx + 1].url)
                    /\ pc' = "leaders_source"
                    /\ UNCHANGED response
               ELSE /\ IF out.ok
                       THEN response' = out.v /\ pc' = "returned"
                       ELSE response' = NoResponse /\ pc' = "threw"
                    /\ UNCHANGED <<idx, fetches>>
    /\ UNCHANGED <<args, upstream, teamData, playerData, standingsData, statsData,
                   teamName, teamAbbrev, lookupUrls>>
    /\ UNCHANGED sideVars

\* The call is over (its promise settled); the server waits for the next.
Settle ==
    /\ pc \in {"returned", "threw"}
    /\ pc' = "idle"
    /\ args' = [tool |-> "none"]
    /\ upstream' = <<>>
    /\ fetches' = <<>>
    /\ lastOutcome' = NoOutcome
    /\ idx' = 0
    /\ teamData' = <<>>
    /\ playerData' = Null
    /\ standingsData' = Null
    /\ result' = Null
    /\ errorMessages' = <<>>
    /\ statsData' = Null
    /\ teamName' = Undef
    /\ teamAbbrev' = Undef
    /\ lookupUrls' = <<>>
    /\ response' = NoResponse
    /\ UNCHANGED sideVars

NextTeam ==
    \/ CallGetTeam
    \/ TeamSourceStep
    \/ TeamStatsStep
    \/ Settle

NextPlayer ==
    \/ CallGetPlayer
    \/ PlayerSourceStep
    \/ PlayerStatsStep
    \/ PlayerLookupStep
    \/ PlayerRosterStep
    \/ Settle

NextStandings ==
    \/ CallGetStandings
    \/ StandingsSourceStep
    \/ Settle

NextLeaders ==
    \/ CallGetSkaterLeaders
    \/ LeadersSourceStep
    \/ Settle

Next ==
    \/ CallGetTeam
    \/ TeamSourceStep
    \/ TeamStatsStep
    \/ CallGetPlayer
    \/ PlayerSourceStep
    \/ PlayerStatsStep
    \/ PlayerLookupStep
    \/ PlayerRosterStep
    \/ CallGetStandings
    \/ StandingsSourceStep
    \/ CallGetSkaterLeaders
    \/ LeadersSourceStep
    \/ Settle

SpecStandings == Init /\ [][NextStandings]_vars

SpecLeaders == Init /\ [][NextLeaders]_vars

SpecTeam == Init /\ [][NextTeam]_vars

SpecPlayer == Init /\ [][NextPlayer]_vars

Spec == Init /\ [][Next]_vars

-----------------------------------------------------------------------------
(***************************************************************************)
(* Properties of the source loops.                                         *)
(***************************************************************************)
InTeam      == args.tool = "get-team"
InPlayer    == args.tool = "get-player"
InStandings == args.tool = "get-standings"
InLeaders   == args.tool = "get-skater-leaders"

\* The set of the elements of a sequence.
Range(seq) == {seq[i] : i \in 1..Len(seq)}

\* The source loop of get-team is over: the handler waits for the club
\* stats, or has returned or thrown.
TeamLoopEnded == InTeam /\ pc \in {"team_stats", "returned", "threw"}

\* The URLs of the endpoints of get-team, in the order of the list.
TeamSourceUrls == [i \in 1..Len(TeamEndpoints(teamCode)) |-> TeamEndpoints(teamCode)[i].url]

\* name, division and conference are all present in the accumulator.
HasNameDivisionConference ==
    /\ Truthy(Field(teamData, "name"))
    /\ Truthy(Field(teamData, "division"))
    /\ Truthy(Field(teamData, "conference"))

\* C1: whatever the sources answer, when the source loop of get-team ends
\* either the accumulator holds name, division and conference, or every
\* endpoint of the list has been attempted, in the order of the list.
C1_CompleteOrEverySourceAttempted ==
    TeamLoopEnded =>
        \/ HasNameDivisionConference
        \/ /\ idx = Len(TeamSourceUrls)
           /\ SubSeq(fetches, 1, idx) = TeamSourceUrls

\* The loop has ended at the second or third endpoint with a complete
\* accumulator, after an endpoint that failed or was incomplete.
C1_Witness ==
    /\ TeamLoopEnded
    /\ idx \in 2..3
    /\ HasNameDivisionConference

\* The fields of the accumulator of get-team.
TeamFields ==
    {"name", "teamId", "locationName", "teamName", "division", "conference", "record"}

\* A value that is present and not empty.
NonEmpty(v) == ~Nullish(v) /\ v.t \in {"string", "number", "boolean", "object", "array"}
                 /\ (v.t = "string" => v.s /= "")
                 /\ (v.t = "object" => DOMAIN v.f /= {})
                 /\ (v.t = "array" => v.e /= <<>>)

\* C2: non-regression of the merge of get-team: a field of the accumulator
\* that holds a non-empty value is neither changed nor cleared by the parse
\* result of a later source.
C2_NonRegression ==
    [][ (InTeam /\ pc = "team_source")
          => \A k \in TeamFields :
                NonEmpty(Field(teamData, k)) => Field(teamData', k) = Field(teamData, k) ]_vars

\* What the first source of the running query yields on its own.
FirstTeamParse ==
    IF Served(TeamSourceUrls[1]) = Down THEN Ok(<<>>)
    ELSE IF ~Truthy(Served(TeamSourceUrls[1])) THEN Ok(<<>>)
    ELSE parseTeam(TeamEndpoints(teamCode)[1].name, Served(TeamSourceUrls[1]), teamCode)

\* The first source alone satisfies the stop condition of its loop.
FirstSourceStops ==
    CASE InTeam ->
            /\ FirstTeamParse.ok
            /\ Truthy(Field(FirstTeamParse.v, "name"))
            /\ Truthy(Field(FirstTeamParse.v, "division"))
            /\ Truthy(Field(FirstTeamParse.v, "conference"))
      [] InPlayer ->
            LET doc == Served(PlayerLandingUrl(args.playerId)) IN
            /\ doc /= Down
            /\ Truthy(Or(Get(doc, "fullName"),
                         And(Get(doc, "firstName"), Get(doc, "lastName"))))
      [] InStandings ->
            /\ Served(StandingsUrls[1]) /= Down
            /\ Truthy(Served(StandingsUrls[1]))
      [] InLeaders ->
            LET doc == Served(WebLeadersUrl(args.category, args.limit))
                ex  == extractWeb(doc, args.category)
            IN /\ doc /= Down
               /\ ex.ok
               /\ Truthy(ex.v)
               /\ Get(ex.v, "leaders").t = "array"
               /\ Get(ex.v, "leaders").e /= <<>>
      [] OTHER -> FALSE

\* The URLs of the sources listed after the first one.
LaterSourceUrls ==
    CASE InTeam      -> Range(Tail(TeamSourceUrls))
      [] InPlayer    -> {StatsPlayerUrl(args.playerId)}
      [] InStandings -> Range(Tail(StandingsUrls))
      [] InLeaders   -> {StatsDirectLeadersUrl(args.category, args.limit),
                         StatsFilteredLeadersUrl(args.category, args.limit)}
      [] OTHER       -> {}

\* C3 as stated: if the first source alone satisfies the stop condition, no
\* source listed after it is fetched during the query.
C3_NoLaterSourceFetched ==
    FirstSourceStops => Range(fetches) \cap LaterSourceUrls = {}

\* C3: if the first source alone satisfies the stop condition, the source
\* loop fetches no source listed after it: the loop stays at the first
\* source, and the only later fetch of a listed URL is the club-stats
\* fetch get-team makes after its loop for the Stats lines.
C3_LoopFetchesNoLaterSource ==
    FirstSourceStops =>
        /\ idx = 1
        /\ fetches[1] \notin LaterSourceUrls
        /\ \A i \in 2..Len(fetches) :
              fetches[i] \in LaterSourceUrls =>
                 /\ InTeam
                 /\ i = 2
                 /\ Len(fetches) = 2
                 /\ fetches[i] = ClubStatsUrl(teamCode)
                 /\ pc \in {"team_stats", "returned", "threw"}

\* get-team has returned after a first source that was complete on its own
\* and the club-stats fetch that followed the loop.
C3_Witness ==
    /\ InTeam
    /\ FirstSourceStops
    /\ pc = "returned"
    /\ fetches = <<RosterUrl(teamCode), ClubStatsUrl(teamCode)>>

\* The URL the source loop in progress waits for.
LoopUrl ==
    CASE pc = "team_source"      -> TeamSourceUrls[idx]
      [] pc = "player_source"    -> PlayerEndpoints(args.playerId)[idx].url
      [] pc = "standings_source" -> StandingsUrls[idx]
      [] pc = "leaders_source"   -> LeadersEndpoints(args.category, args.limit)[idx].url

\* The number of sources of the loop in progress.
LoopLength ==
    CASE pc = "team_source"      -> Len(TeamSourceUrls)
      [] pc = "player_source"    -> Len(PlayerEndpoints(args.playerId))
      [] pc = "standings_source" -> Len(StandingsUrls)
      [] pc = "leaders_source"   -> Len(LeadersEndpoints(args.category, args.limit))

InSourceLoop ==
    pc \in {"team_source", "player_source", "standings_source", "leaders_source"}

\* C4: a failed fetch (network error, non-2xx status, malformed body) makes
\* makeNHLRequest return null without throwing, and the source loop goes on
\* to the next source in order: nothing is merged, no error is recorded, the
\* handler does not throw, and the next source of the list is fetched.
C4_FailedFetchIsNotFatal ==
    [][ /\ \A e \in FetchErrors : makeNHLRequest(e) = Ok(Null)
        /\ (InSourceLoop /\ Served(LoopUrl) = Down) =>
              /\ pc' /= "threw"
              /\ <<teamData, playerData, standingsData, result, errorMessages>>'
                    = <<teamData, playerData, standingsData, result, errorMessages>>
              /\ idx < LoopLength =>
                    /\ pc' = pc
                    /\ idx' = idx + 1
                    /\ fetches' = Append(fetches, LoopUrl') ]_vars

\* The first source of get-team has failed and the second one is being
\* fetched, with nothing merged and no error recorded.
C4_Witness ==
    /\ InTeam
    /\ pc = "team_source"
    /\ idx = 2
    /\ lastOutcome.kind \in {"network", "status", "malformed"}
    /\ fetches = SubSeq(TeamSourceUrls, 1, 2)
    /\ teamData = <<>>
    /\ errorMessages = <<>>

\* The query is over: the handler has returned or thrown.
QueryEnded == pc \in {"returned", "threw"}

\* What source i of get-team would yield on its own: the entries of its
\* parse result that are neither undefined nor null.
TeamYield(i) ==
    LET doc == Served(TeamSourceUrls[i])
        parsed == parseTeam(TeamEndpoints(teamCode)[i].name, doc, teamCode)
    IN IF doc = Down \/ ~Truthy(doc) THEN <<>>
       ELSE IF ~parsed.ok THEN <<>>
       ELSE MergeTeam(<<>>, parsed.v)

\* Source i of get-player carries a usable player.
PlayerSourceUsable(i) ==
    LET doc == Served(PlayerEndpoints(args.playerId)[i].url)
        parsed == parsePlayer(PlayerEndpoints(args.playerId)[i].name, doc)
    IN doc /= Down /\ Truthy(doc) /\ parsed.ok /\ PlayerUsable(parsed.v)

\* URL i of get-standings serves a document with a non-empty list of
\* divisions in one of the places the handler looks at.
StandingsSourceUsable(i) ==
    LET doc == Served(StandingsUrls[i]) IN
    /\ doc /= Down
    /\ Truthy(doc)
    /\ FindDivisions(doc).ok
    /\ FindDivisions(doc).v.t = "array"
    /\ FindDivisions(doc).v.e /= <<>>

\* The list of leaders source i of get-skater-leaders returns: the empty
\* list when it fails or returns no list.
LeadersOfSource(i) ==
    LET e   == LeadersEndpoints(args.category, args.limit)[i]
        doc == Served(e.url)
        ex  == extract(e.format, doc, args.category)
    IN IF doc = Down \/ ~Truthy(doc) THEN <<>>
       ELSE IF ~ex.ok \/ ~Truthy(ex.v) THEN <<>>
       ELSE IF Get(ex.v, "leaders").t /= "array" THEN <<>>
       ELSE Get(ex.v, "leaders").e

\* C5 for one handler each: a bad source does not end the query while a
\* later source could still answer it.
C5_Team ==
    (InTeam /\ QueryEnded /\ \E i \in 1..Len(TeamSourceUrls) : Truthy(Field(TeamYield(i), "name")))
        => pc = "returned" /\ response /= <<TeamNotFoundText(teamCode)>>

C5_Player ==
    (InPlayer /\ QueryEnded /\ \E i \in 1..Len(PlayerEndpoints(args.playerId)) : PlayerSourceUsable(i))
        => pc = "returned" /\ response /= <<PlayerNotFoundText(args.playerId)>>

C5_Standings ==
    (InStandings /\ QueryEnded /\ \E i \in 1..Len(StandingsUrls) : StandingsSourceUsable(i))
        => pc = "returned" /\ response \notin {<<StandingsFailedText>>, <<StandingsNoDataText>>}

C5_Leaders ==
    (InLeaders /\ QueryEnded /\ \E i \in 1..3 : LeadersOfSource(i) /= <<>>)
        => pc = "returned" /\ response \notin {<<LeadersFailedText(args.category)>>,
                                               <<LeadersEmptyText(args.category)>>}

\* C5: in every multi-source query, a source that fails or that carries no
\* usable data never ends the query while another source of the list could
\* answer it: the query returns, and not with its failure message.
C5_BadSourceDoesNotEndQuery ==
    C5_Team /\ C5_Player /\ C5_Standings /\ C5_Leaders

\* Every source of the running get-team fails to fetch.
EveryTeamSourceFails == \A i \in 1..Len(TeamSourceUrls) : Served(TeamSourceUrls[i]) = Down

\* C6: if every source of a team query fails to fetch, the handler never
\* reaches the stats fetch and never throws, and it returns exactly one
\* text, the explanatory message for the requested team code, which is none
\* of the Team, Division, Conference or Stats lines.
C6_AllSourcesFailNotFound ==
    (InTeam /\ EveryTeamSourceFails) =>
        /\ pc \in {"team_source", "returned"}
        /\ pc = "returned" =>
              /\ response = <<TeamNotFoundText(teamCode)>>
              /\ idx = Len(TeamSourceUrls)
              /\ response[1] \notin Range(TeamInfoLines(teamData, teamCode)) \cup {"Stats:"}

\* get-team has returned after four failed fetches.
C6_Witness ==
    /\ InTeam
    /\ EveryTeamSourceFails
    /\ pc = "returned"
    /\ fetches = TeamSourceUrls

\* The fields of the accumulator that identify the team.
TeamIdentityFields == {"name", "teamId", "locationName", "teamName"}

\* C7: when the source loop of get-team is exhausted without completeness,
\* the query returns NotFound exactly if the accumulator holds no non-empty
\* identity field, and the partially filled record otherwise.
C7_PartialRecordOrNotFound ==
    (InTeam /\ pc = "returned" /\ idx = Len(TeamSourceUrls) /\ ~HasNameDivisionConference)
        => ( response = <<TeamNotFoundText(teamCode)>>
               <=> \A k \in TeamIdentityFields : ~NonEmpty(Field(teamData, k)) )

\* C8: if an earlier source yields a name but neither division nor
\* conference and a later source yields division and conference, then at
\* the end of the loop the later source has been fetched, unless the record
\* was complete before its turn, and the record holds name, division and
\* conference.
C8_LaterSourceCompletesRecord ==
    (TeamLoopEnded /\ \E i, j \in 1..Len(TeamSourceUrls) :
                         /\ i < j
                         /\ Truthy(Field(TeamYield(i), "name"))
                         /\ ~Truthy(Field(TeamYield(i), "division"))
                         /\ ~Truthy(Field(TeamYield(i), "conference"))
                         /\ Truthy(Field(TeamYield(j), "division"))
                         /\ Truthy(Field(TeamYield(j), "conference")))
        => HasNameDivisionConference

\* The names a team directory document holds for the team id: the
\* teamName.default of the standings rows and the name or fullName of the
\* rows of the stats directory.
RowsOf(v) == IF v.t = "array" THEN Range(v.e) ELSE {}

DirectoryNames(doc, teamId) ==
    LET divs == RowsOf(OptGet(Get(doc, "standings"), "divisionStandings"))
        recs == UNION {RowsOf(Get(d, "teamRecords")) : d \in {x \in divs : ~Nullish(x)}}
        hits == {r \in recs : ~Nullish(r) /\ StrictEq(Get(r, "teamId"), teamId)}
        data == {r \in RowsOf(Get(doc, "data")) : ~Nullish(r) /\ StrictEq(Get(r, "id"), teamId)}
    IN {OptGet(Get(r, "teamName"), "default") : r \in hits}
         \cup {Or(Get(r, "name"), Get(r, "fullName")) : r \in data}

\* The names of the team of the resolved player in the directories the
\* lookup has fetched.
FetchedDirectoryNames ==
    UNION { {n \in DirectoryNames(Served(u), Get(playerData, "teamId")) :
                n.t = "string" /\ n.s /= ""}
            : u \in {x \in Range(TeamUrls) \cap Range(fetches) : Served(x) /= Down} }

\* C9: for a player whose record has a teamId, whenever a directory the
\* lookup fetched successfully holds a team with that id and a name, the
\* returned text carries such a name in its Team line, next to the player's
\* own lines.
C9_TeamNameResolved ==
    (InPlayer /\ pc = "returned" /\ Truthy(playerData)
        /\ Truthy(Get(playerData, "teamId")) /\ FetchedDirectoryNames /= {})
        => /\ \E n \in FetchedDirectoryNames : "Team: " \o n.s \in Range(response)
           /\ "Name: " \o PlayerNameOf(playerData, args.playerId) \in Range(response)

\* The first source, in priority order, that returns a non-empty list.
FirstLeadersSource ==
    CHOOSE i \in 1..3 : /\ LeadersOfSource(i) /= <<>>
                        /\ \A j \in 1..(i - 1) : LeadersOfSource(j) = <<>>

\* C10: in a leaders query a source with an empty list is passed over, and
\* whenever some source returns a non-empty list the query returns the rows
\* of the first such source, one line per row after the two header lines.
C10_RowsOfFirstNonEmptySource ==
    (InLeaders /\ QueryEnded /\ \E i \in 1..3 : LeadersOfSource(i) /= <<>>)
        => /\ pc = "returned"
           /\ Len(response) = 2 + Len(LeadersOfSource(FirstLeadersSource))
           /\ \A r \in 1..Len(LeadersOfSource(FirstLeadersSource)) :
                 LET row == LeaderRow(LeadersOfSource(FirstLeadersSource)[r], r - 1,
                                      args.category)
                 IN row.ok /\ response[r + 2] = row.v

-----------------------------------------------------------------------------
(***************************************************************************)
(* safeString, the helper the handlers render a field with.  The server    *)
(* has three versions of it (src/unnamed/part_001): one that gives the     *)
(* default for every object (1036, the one of demo.ts), one that unwraps   *)
(* a `default` member first (553, 707 and sixteen more) and one that       *)
(* unwraps and then converts whatever is left with String() (3834).        *)
(* Each is applied on its own to a value of every kind.                    *)
(***************************************************************************)
\* typeof v
TypeOf(v) ==
    CASE v.t = "undefined"                   -> "undefined"
      [] v.t \in {"null", "object", "array"} -> "object"
      [] OTHER                               -> v.t

\* v.k: a TypeError when v is null or undefined.
Member(v, k) == IF Nullish(v) THEN Throw("TypeError") ELSE Ok(Get(v, k))

\* The version without `default` unwrapping.
safeStringPlain(value, defaultValue) ==
    IF StrictEq(value, Null) \/ StrictEq(value, Undef) THEN Ok(Str(defaultValue))
    ELSE IF TypeOf(value) = "string" THEN Ok(value)
    ELSE IF TypeOf(value) \in {"number", "boolean"} THEN Ok(Str(JsString(value)))
    ELSE Ok(Str(defaultValue))

\* The unwrapping version with its first test removed.
safeStringUnguarded(value, defaultValue) ==
    LET Unwrapped(d) ==
            IF ~d.ok THEN d
            ELSE IF Truthy(d.v) THEN Ok(d.v)
            ELSE Ok(Str(defaultValue))
    IN
    IF TypeOf(value) = "string" THEN Ok(value)
    ELSE IF TypeOf(value) \in {"number", "boolean"} THEN Ok(Str(JsString(value)))
    ELSE IF TypeOf(value) = "object" THEN Unwrapped(Member(value, "default"))
    ELSE Ok(Str(defaultValue))

\* if (typeof value === 'object' && value.default) return value.default
safeStringUnwrap(value, defaultValue) ==
    LET Unwrapped(d) ==
            IF ~d.ok THEN d
            ELSE IF Truthy(d.v) THEN Ok(d.v)
            ELSE Ok(Str(defaultValue))
    IN
    IF StrictEq(value, Null) \/ StrictEq(value, Undef) THEN Ok(Str(defaultValue))
    ELSE IF TypeOf(value) = "string" THEN Ok(value)
    ELSE IF TypeOf(value) \in {"number", "boolean"} THEN Ok(Str(JsString(value)))
    ELSE IF TypeOf(value) = "object" THEN Unwrapped(Member(value, "default"))
    ELSE Ok(Str(defaultValue))

\* The version that ends in `return String(value)`.
safeStringCoerce(value, defaultValue) ==
    LET Unwrapped(d) ==
            IF ~d.ok THEN d
            ELSE IF Truthy(d.v) THEN Ok(d.v)
            ELSE Ok(Str(JsString(value)))
    IN
    IF StrictEq(value, Null) \/ StrictEq(value, Undef) THEN Ok(Str(defaultValue))
    ELSE IF TypeOf(value) = "object" THEN Unwrapped(Member(value, "default"))
    ELSE Ok(Str(JsString(value)))

\* The helper of one call site.
safeStringAt(site, value, defaultValue) ==
    CASE site = "get-player"            -> safeStringPlain(value, defaultValue)
      [] site = "get-player-landing"    -> safeStringUnwrap(value, defaultValue)
      [] site = "get-game-play-by-play" -> safeStringCoerce(value, defaultValue)

SafeStringSites == {"get-player", "get-player-landing", "get-game-play-by-play"}

\* Values of every kind a field of an upstream document can hold.
SafeStringValues ==
    { Undef, Null, Str("Toronto"), Str(""), Num(0), Num(91), Bool(TRUE),
      Bool(FALSE), EmptyArray, Arr(<<Str("C"), Str("L")>>), EmptyObject,
      Obj([name |-> Str("Toronto")]),
      Obj([default |-> Str("Toronto")]),
      Obj([default |-> Str("Toronto"), fr |-> Str("Toronto")]),
      Obj([default |-> Str("")]),
      Obj([default |-> Null]),
      Obj([default |-> Num(91)]),
      Obj([default |-> Obj([name |-> Str("Toronto")])]) }

SafeStringDefaults == {"N/A", "Unknown"}

InitSafeString ==
    /\ pc = "idle"
    /\ \E site \in SafeStringSites, value \in SafeStringValues,
          defaultValue \in SafeStringDefaults :
         args = [tool |-> "safeString", site |-> site, value |-> value,
                 defaultValue |-> defaultValue]
    /\ upstream = <<>>
    /\ fetches = <<>>
    /\ lastOutcome = NoOutcome
    /\ idx = 0
    /\ teamData = <<>>
    /\ playerData = Null
    /\ standingsData = Null
    /\ result = Null
    /\ errorMessages = <<>>
    /\ statsData = Null
    /\ teamName = Undef
    /\ teamAbbrev = Undef
    /\ lookupUrls = <<>>
    /\ response = NoResponse
    /\ returned = NoValue
    /\ previous = NoValue
    /\ other = NoValue
    /\ timeZone = "UTC"
    /\ schedule = NoValue

ApplySafeString ==
    /\ pc = "idle"
    /\ args.tool = "safeString"
    /\ returned' = safeStringAt(args.site, args.value, args.defaultValue)
    /\ pc' = IF returned'.ok THEN "returned" ELSE "threw"
    /\ UNCHANGED <<args, upstream, fetches, lastOutcome, idx, teamData,
                   playerData, standingsData, result, errorMessages, statsData,
                   teamName, teamAbbrev, lookupUrls, response, previous, other,
                   timeZone, schedule>>

NextSafeString ==
    \/ ApplySafeString

SpecSafeString == InitSafeString /\ [][NextSafeString]_vars

\* safeString has been applied.
SafeStringApplied == args.tool = "safeString" /\ pc /= "idle"

SafeDisplay(value, defaultValue) ==
    IF Nullish(value) THEN defaultValue
    ELSE IF value.t = "string" THEN value.s
    ELSE IF value.t \in {"number", "boolean"} THEN JsString(value)
    ELSE IF value.t = "object" /\ Get(value, "default").t = "string"
    THEN Get(value, "default").s
    ELSE defaultValue

\* C12: safeString always returns a string and never "[object Object]": a
\* primitive as its text, {default: s} as s, any other object or array as
\* the caller's default.
C12_SafeStringReturnsText ==
    SafeStringApplied =>
        /\ returned.ok
        /\ returned.v.t = "string"
        /\ returned.v.s /= "[object Object]"
        /\ returned.v.s = SafeDisplay(args.value, args.defaultValue)

-----------------------------------------------------------------------------
(***************************************************************************)
(* The same query twice.  A handler's variables are locals of one call     *)
(* (demo.ts 327-328, 499-500, 989-990): what a finished call leaves in     *)
(* them is out of reach of the next call, which starts from its own        *)
(* initialisers.  Here the first call's values are left where they are,    *)
(* the call's outcome is kept in `previous`, and the same tool is called   *)
(* again with the same arguments against the same upstream.                *)
(***************************************************************************)
Ended == pc \in {"returned", "threw"}

\* What the caller gets from a call: the text, or the exception.
OutcomeOfCall == [args |-> args, upstream |-> upstream, pc |-> pc,
                  response |-> response]

\* The first call is over.
SettleFirst ==
    /\ Ended
    /\ previous = NoValue
    /\ previous' = OutcomeOfCall
    /\ pc' = "idle"
    /\ UNCHANGED <<args, upstream, fetches, lastOutcome, idx, teamData,
                   playerData, standingsData, result, errorMessages, statsData,
                   teamName, teamAbbrev, lookupUrls, response, returned, other,
                   timeZone, schedule>>

\* The first call: get-team, get-player or get-skater-leaders.
CallFirst ==
    /\ previous = NoValue
    /\ \/ CallGetTeam
       \/ CallGetPlayer
       \/ CallGetSkaterLeaders

\* The second call repeats the first.
CallAgain ==
    /\ pc = "idle"
    /\ previous /= NoValue
    /\ \/ /\ previous.args.tool = "get-team"
          /\ GetTeamEntered(previous.args.teamAbbrev, previous.upstream)
       \/ /\ previous.args.tool = "get-player"
          /\ GetPlayerEntered(previous.args.playerId, previous.upstream)
       \/ /\ previous.args.tool = "get-skater-leaders"
          /\ GetSkaterLeadersEntered(previous.args.category, previous.args.limit,
                                     previous.upstream)

NextTwice ==
    \/ CallFirst
    \/ CallAgain
    \/ TeamSourceStep
    \/ TeamStatsStep
    \/ PlayerSourceStep
    \/ PlayerStatsStep
    \/ PlayerLookupStep
    \/ PlayerRosterStep
    \/ LeadersSourceStep
    \/ SettleFirst

SpecTwice == Init /\ [][NextTwice]_vars

\* C13: the same team, player or leaders query resolved a second time
\* against the same upstream responses ends as the first did, with the
\* same text: nothing left behind by the earlier call reaches the result.
C13_SameQuerySameResult ==
    (previous /= NoValue /\ Ended) =>
        /\ pc = previous.pc
        /\ response = previous.response

C13_Witness ==
    /\ previous /= NoValue
    /\ InTeam
    /\ pc = "returned"
    /\ Len(fetches) = 3
    /\ Len(response) > 4
    /\ response = previous.response

-----------------------------------------------------------------------------
(***************************************************************************)
(* get-team of the single-source server (src/unnamed/part_002 136-192):    *)
(* one roster fetch, one club-stats fetch, and the text built from the     *)
(* roster document itself.                                                 *)
(***************************************************************************)
\* const teamCode = teamAbbrev.toUpperCase()
BasicTeamCodeOf(abbrevChars) == JoinStr(toUpperCase(abbrevChars), "")

basicTeamCode == BasicTeamCodeOf(args.teamAbbrev)

BasicFailedText(code) == "Failed to retrieve data for team: " \o code

\* let teamInfo = [...]
BasicTeamInfoLines(doc) ==
    << "Team: " \o JsString(Or(Get(doc, "name"),
                               Str(JsString(Get(doc, "locationName")) \o " "
                                     \o JsString(Get(doc, "teamName"))))),
       "Abbreviation: " \o JsString(Get(doc, "abbrev")),
       "Division: " \o JsString(OptGet(Get(doc, "division"), "name")),
       "Conference: " \o JsString(OptGet(Get(doc, "conference"), "name")) >>

\* The lines added from statsData.teamStats[0].
BasicStatsLines(stats) ==
    << "Stats:",
       "  Record: " \o JsString(Get(stats, "wins")) \o "-"
            \o JsString(Get(stats, "losses")) \o "-" \o JsString(Get(stats, "otLosses")),
       "  Points: " \o JsString(Get(stats, "points")),
       "  Goals For: " \o JsString(Get(stats, "goalsFor")),
       "  Goals Against: " \o JsString(Get(stats, "goalsAgainst")),
       "  Home Record: " \o JsString(Get(stats, "homeRecordL10")),
       "  Away Record: " \o JsString(Get(stats, "awayRecordL10")) >>

\* The text of the handler, or a TypeError when teamStats[0] is null or
\* undefined.
RenderTeamBasic(doc, stats) ==
    IF Truthy(And(stats, Get(stats, "teamStats")))
    THEN IF Nullish(Index(Get(stats, "teamStats"), 0)) THEN Throw("TypeError")
         ELSE Ok(BasicTeamInfoLines(doc)
                    \o BasicStatsLines(Index(Get(stats, "teamStats"), 0)))
    ELSE Ok(BasicTeamInfoLines(doc))

\* Roster documents: those of get-team and some that name the team's code.
BasicRosterDocs ==
    RosterDocs \cup
    { Obj([name |-> Str("Toronto Maple Leafs"), abbrev |-> Str("TOR")]),
      Obj([name |-> Str("Boston Bruins"), abbrev |-> Str("BOS")]) }

BasicUpstreams(code) ==
    [ {RosterUrl(code), ClubStatsUrl(code)} -> {Down} ] \cup
    { (RosterUrl(code) :> r) @@ (ClubStatsUrl(code) :> c) :
        r \in BasicRosterDocs \cup {Down}, c \in ClubStatsDocs \cup {Down} }

\* The handler is entered and runs to its first await.
GetTeamBasicEntered(abbrev, ups) ==
    /\ args' = [tool |-> "get-team-basic", teamAbbrev |-> abbrev]
    /\ upstream' = ups
    /\ fetches' = <<RosterUrl(BasicTeamCodeOf(abbrev))>>
    /\ pc' = "basic_roster"
    /\ UNCHANGED <<lastOutcome, idx, teamData, playerData, standingsData, result,
                   errorMessages, statsData, teamName, teamAbbrev, lookupUrls,
                   response>>
    /\ UNCHANGED sideVars

CallGetTeamBasic ==
    /\ pc = "idle"
    /\ \E abbrev \in TeamAbbrevInputs :
         \E ups \in BasicUpstreams(BasicTeamCodeOf(abbrev)) :
            GetTeamBasicEntered(abbrev, ups)

\* The resumption after `await makeNHLRequest(teamUrl)`.
BasicRosterStep ==
    /\ pc = "basic_roster"
    /\ \E o \in Outcomes(RosterUrl(basicTeamCode)) :
       \E req \in {makeNHLRequest(o)} :
         /\ lastOutcome' = OutcomeKind(o)
         /\ IF ~req.ok
            THEN /\ pc' = "threw"
                 /\ UNCHANGED <<teamData, fetches, response>>
            ELSE IF ~Truthy(req.v)
            THEN /\ response' = <<BasicFailedText(basicTeamCode)>>
                 /\ pc' = "returned"
                 /\ UNCHANGED <<teamData, fetches>>
            ELSE /\ teamData' = req.v
                 /\ fetches' = Append(fetches, ClubStatsUrl(basicTeamCode))
                 /\ pc' = "basic_stats"
                 /\ UNCHANGED response
    /\ UNCHANGED <<args, upstream, idx, playerData, standingsData, result,
                   errorMessages, statsData, teamName, teamAbbrev, lookupUrls>>
    /\ UNCHANGED sideVars

\* The resumption after `await makeNHLRequest(statsUrl)`.
BasicStatsStep ==
    /\ pc = "basic_stats"
    /\ \E o \in Outcomes(ClubStatsUrl(basicTeamCode)) :
       \E req \in {makeNHLRequest(o)} :
       \E out \in {IF req.ok THEN RenderTeamBasic(teamData, req.v) ELSE req} :
         /\ lastOutcome' = OutcomeKind(o)
         /\ statsData' = IF req.ok THEN req.v ELSE statsData
         /\ IF out.ok
            THEN response' = out.v /\ pc' = "returned"
            ELSE response' = NoResponse /\ pc' = "threw"
    /\ UNCHANGED <<args, upstream, fetches, idx, teamData, playerData,
                   standingsData, result, errorMessages, teamName, teamAbbrev,
                   lookupUrls>>
    /\ UNCHANGED sideVars

NextTeamBasic ==
    \/ CallGetTeamBasic
    \/ BasicRosterStep
    \/ BasicStatsStep
    \/ Settle

SpecTeamBasic == Init /\ [][NextTeamBasic]_vars

InTeamBasic == args.tool = "get-team-basic"

\* C14: the caller's team code is canonical.  In the multi-source get-team
\* the accumulator's abbrev, once set, is the upper-cased code of the call
\* after every merge, and the Abbreviation line of a team text shows it; in
\* the single-source get-team the Abbreviation line shows it too, whatever
\* the roster document says.
C14_TeamCodeCanonical ==
    /\ InTeam =>
         /\ "abbrev" \in DOMAIN teamData => teamData.abbrev = Str(teamCode)
         /\ (pc = "returned" /\ Len(response) > 1) =>
                response[2] = "Abbreviation: " \o teamCode
    /\ (InTeamBasic /\ pc = "returned" /\ Len(response) > 1) =>
         response[2] = "Abbreviation: " \o basicTeamCode

-----------------------------------------------------------------------------
(***************************************************************************)
(* The boundary of get-team (demo.ts 185-192): the arguments are checked   *)
(* against the tool's schema, z.string().length(3), before the handler is  *)
(* invoked; the handler upper-cases and trims what it is given.            *)
(***************************************************************************)
\* z.string().length(3)
TeamAbbrevSchema(chars) == Len(chars) = 3

\* What a caller may send as teamAbbrev.
BoundaryAbbrevInputs ==
    TeamAbbrevInputs \cup
    { <<"T", "O">>, <<"T", "O", "R", "O">>, <<>>,
      <<"t", "o", " ">>, <<" ", " ", " ">>, <<"1", "2", "3">> }

\* Upstreams with the first two sources of get-team only.
BoundaryUpstreams(code) ==
    { ups \in TeamUpstreams(code) :
        ups[TeamInfoUrl] = Down /\ ups[StandingsNowUrl] = Down }

\* A call of get-team with arguments of any shape: refused, or handed to
\* the handler.
CallGetTeamChecked ==
    /\ pc = "idle"
    /\ \E abbrev \in BoundaryAbbrevInputs :
         IF TeamAbbrevSchema(abbrev)
         THEN \E ups \in BoundaryUpstreams(TeamCodeOf(abbrev)) :
                 GetTeamEntered(abbrev, ups)
         ELSE /\ args' = [tool |-> "get-team", teamAbbrev |-> abbrev]
              /\ pc' = "rejected"
              /\ UNCHANGED <<upstream, fetches, lastOutcome, idx, teamData,
                             playerData, standingsData, result, errorMessages,
                             statsData, teamName, teamAbbrev, lookupUrls,
                             response>>
              /\ UNCHANGED sideVars

NextBoundary ==
    \/ CallGetTeamChecked
    \/ TeamSourceStep
    \/ TeamStatsStep
    \/ Settle

SpecBoundary == Init /\ [][NextBoundary]_vars

UpperLetters ==
    { "A", "B", "C", "D", "E", "F", "G", "H", "I", "J", "K", "L", "M", "N",
      "O", "P", "Q", "R", "S", "T", "U", "V", "W", "X", "Y", "Z" }

\* A sequence of exactly three letters.
ThreeLetters(chars) ==
    /\ Len(chars) = 3
    /\ \A i \in 1..Len(chars) : UpperChar(chars[i]) \in UpperLetters

\* C15: get-team issues no fetch for a team code that is not exactly three
\* letters, and the team code in every URL it fetches has exactly three
\* letters.
C15_NoFetchForMalformedKey ==
    (InTeam /\ fetches /= <<>>) =>
        /\ ThreeLetters(args.teamAbbrev)
        /\ ThreeLetters(trim(toUpperCase(args.teamAbbrev)))
        /\ fetches[1] = RosterUrl(JoinStr(toUpperCase(args.teamAbbrev), ""))

-----------------------------------------------------------------------------
(***************************************************************************)
(* Two calls of get-team in progress at once.  The server is one thread:   *)
(* a handler runs until it awaits a fetch, and another call may be entered *)
(* or resumed while it waits.  A call's variables are the locals of its    *)
(* own invocation of the handler (demo.ts 191-422); the module has no      *)
(* variable that a handler assigns.  `other` holds the locals of the call  *)
(* that is waiting; the upstream is the same for both.                     *)
(***************************************************************************)
\* The locals of the call whose steps are taken next.
Locals ==
    [pc |-> pc, args |-> args, fetches |-> fetches, lastOutcome |-> lastOutcome,
     idx |-> idx, teamData |-> teamData, playerData |-> playerData,
     standingsData |-> standingsData, result |-> result,
     errorMessages |-> errorMessages, statsData |-> statsData,
     teamName |-> teamName, teamAbbrev |-> teamAbbrev,
     lookupUrls |-> lookupUrls, response |-> response]

\* Control passes from one call to the other with an accumulator that
\* belongs to the module instead of the call.
SwitchSharingAccumulator ==
    /\ previous /= NoValue
    /\ pc /= "idle"
    /\ other' = Locals
    /\ IF other = NoValue
       THEN /\ pc' = "idle"
            /\ UNCHANGED <<args, fetches, lastOutcome, idx, teamData, playerData,
                           standingsData, result, errorMessages, statsData,
                           teamName, teamAbbrev, lookupUrls, response>>
       ELSE /\ pc' = other.pc
            /\ args' = other.args
            /\ fetches' = other.fetches
            /\ lastOutcome' = other.lastOutcome
            /\ idx' = other.idx
            /\ playerData' = other.playerData
            /\ standingsData' = other.standingsData
            /\ result' = other.result
            /\ errorMessages' = other.errorMessages
            /\ statsData' = other.statsData
            /\ teamName' = other.teamName
            /\ teamAbbrev' = other.teamAbbrev
            /\ lookupUrls' = other.lookupUrls
            /\ response' = other.response
            /\ UNCHANGED teamData
    /\ UNCHANGED <<upstream, returned, previous, timeZone, schedule>>

\* Control passes from the call that has reached an await (or has ended)
\* to the other one: to a call not yet entered, or to the call waiting.
Switch ==
    /\ previous /= NoValue
    /\ pc /= "idle"
    /\ other' = Locals
    /\ IF other = NoValue
       THEN /\ pc' = "idle"
            /\ UNCHANGED <<args, fetches, lastOutcome, idx, teamData, playerData,
                           standingsData, result, errorMessages, statsData,
                           teamName, teamAbbrev, lookupUrls, response>>
       ELSE /\ pc' = other.pc
            /\ args' = other.args
            /\ fetches' = other.fetches
            /\ lastOutcome' = other.lastOutcome
            /\ idx' = other.idx
            /\ teamData' = other.teamData
            /\ playerData' = other.playerData
            /\ standingsData' = other.standingsData
            /\ result' = other.result
            /\ errorMessages' = other.errorMessages
            /\ statsData' = other.statsData
            /\ teamName' = other.teamName
            /\ teamAbbrev' = other.teamAbbrev
            /\ lookupUrls' = other.lookupUrls
            /\ response' = other.response
    /\ UNCHANGED <<upstream, returned, previous, timeZone, schedule>>

\* The call that runs alone first.
CallAlone ==
    /\ previous = NoValue
    /\ CallGetTeam

NextConcurrent ==
    \/ CallAlone
    \/ SettleFirst
    \/ CallAgain
    \/ Switch
    \/ TeamSourceStep
    \/ TeamStatsStep

SpecConcurrent == Init /\ [][NextConcurrent]_vars

\* C16: of two get-team calls interleaved at their awaits against the same
\* upstream, each ends exactly as the same call ended when it ran alone:
\* the same text, or the same exception.
C16_ConcurrentCallsIndependent ==
    /\ (previous /= NoValue /\ Ended) =>
          /\ pc = previous.pc
          /\ response = previous.response
    /\ (other /= NoValue /\ other.pc \in {"returned", "threw"}) =>
          /\ other.pc = previous.pc
          /\ other.response = previous.response

\* One call has returned a team text while the other is still waiting for
\* its second source.
C16_Witness ==
    /\ previous /= NoValue
    /\ other /= NoValue
    /\ pc = "returned"
    /\ Len(response) > 4
    /\ response = previous.response
    /\ other.pc = "team_source"
    /\ other.idx = 2
    /\ other.teamData /= teamData

-----------------------------------------------------------------------------
(***************************************************************************)
(* The size of a leaders table.                                            *)
(***************************************************************************)
\* The leader rows of a returned table: the lines after the header and the
\* rule under it.
LeaderRowCount == IF Len(response) > 2 THEN Len(response) - 2 ELSE 0

\* C17: get-skater-leaders returns at most `limit` leader rows, with limit
\* between 1 and 50, however many rows the chosen source holds.
C17_AtMostLimitRows ==
    (InLeaders /\ pc = "returned") =>
        /\ args.limit \in 1..50
        /\ LeaderRowCount <= args.limit

-----------------------------------------------------------------------------
(***************************************************************************)
(* get-team-roster (src/unnamed/part_001 509-624): one fetch inside a      *)
(* try/catch whose catch clause puts the caught error into the text, then  *)
(* the roster rendered outside it.                                         *)
(***************************************************************************)
SeasonRosterUrl(code, seasonCode) ==
    NHL_WEB_API_BASE \o "/roster/" \o code \o "/" \o seasonCode

RosterFailedText(code, seasonCode) ==
    "Failed to retrieve roster for " \o code \o " in season " \o seasonCode
        \o ". The NHL API might be unavailable."

\* The text of the catch clause.
RosterErrorText(code, seasonCode, error) ==
    "Error retrieving roster for " \o code \o " in season " \o seasonCode
        \o ": " \o error

\* safeString(v) in a template literal.
SafeText(v) == JsString(safeStringUnwrap(v, "N/A").v)

\* formatPlayer on a player that is neither null nor undefined; heights and
\* weights are numbers in the documents drawn here.
formatPlayer(player) ==
    SafeText(Get(player, "firstName")) \o " " \o SafeText(Get(player, "lastName"))
      \o " "
      \o (IF Truthy(Get(player, "sweaterNumber"))
          THEN "#" \o JsString(Get(player, "sweaterNumber")) ELSE "")
      \o " (" \o JsString(Or(Get(player, "positionCode"), Str(""))) \o ") - "
      \o (IF Truthy(Get(player, "heightInInches"))
          THEN ToString(Get(player, "heightInInches").n \div 12) \o "'"
                  \o ToString(Get(player, "heightInInches").n % 12) \o "\""
          ELSE "N/A")
      \o ", "
      \o (IF Truthy(Get(player, "weightInPounds"))
          THEN JsString(Get(player, "weightInPounds")) \o " lbs" ELSE "N/A")

\* One group of the display: nothing for a missing or empty list, a
\* TypeError for a list without forEach or with a null player.
RosterGroup(list, title) ==
    IF ~(Truthy(list) /\ GreaterThanZero(Length(list))) THEN Ok(<<>>)
    ELSE IF list.t /= "array" THEN Throw("TypeError")
    ELSE IF \E p \in 1..Len(list.e) : Nullish(list.e[p]) THEN Throw("TypeError")
    ELSE Ok(<<title>> \o [p \in 1..Len(list.e) |-> formatPlayer(list.e[p])]
                \o <<"">>)

\* list?.length || 0
LengthOrZero(list) ==
    IF Nullish(list) \/ ~Truthy(Length(list)) THEN 0 ELSE Length(list).n

\* The roster display, or the TypeError of a group.
RenderRoster(rosterData, code, seasonCode) ==
    LET Display(f, d, g) ==
            IF ~f.ok THEN f
            ELSE IF ~d.ok THEN d
            ELSE IF ~g.ok THEN g
            ELSE Ok(<<"# " \o code \o " Roster - " \o seasonCode \o " Season\n">>
                      \o f.v \o d.v \o g.v
                      \o <<"Total players: "
                             \o ToString(LengthOrZero(Get(rosterData, "forwards"))
                                  + LengthOrZero(Get(rosterData, "defensemen"))
                                  + LengthOrZero(Get(rosterData, "goalies")))>>)
    IN Display(RosterGroup(Get(rosterData, "forwards"), "## Forwards"),
               RosterGroup(Get(rosterData, "defensemen"), "## Defensemen"),
               RosterGroup(Get(rosterData, "goalies"), "## Goalies"))

RosterPlayerA ==
    Obj([firstName |-> Obj([default |-> Str("Auston")]),
         lastName |-> Obj([default |-> Str("Matthews")]),
         sweaterNumber |-> Num(34), positionCode |-> Str("C"),
         heightInInches |-> Num(75), weightInPounds |-> Num(215)])

RosterPlayerB == Obj([firstName |-> Str("Morgan"), lastName |-> Str("Rielly")])

SeasonRosterDocs ==
    { EmptyObject,
      Obj([forwards |-> Arr(<<RosterPlayerA>>)]),
      Obj([forwards |-> Arr(<<RosterPlayerA, RosterPlayerB>>),
           defensemen |-> Arr(<<RosterPlayerB>>), goalies |-> EmptyArray]),
      Obj([goalies |-> Arr(<<RosterPlayerB>>)]),
      Obj([forwards |-> Arr(<<Null>>)]),
      Obj([forwards |-> Str("none")]) }

SeasonInputs == {"20242025", "20232024"}

\* The handler is entered and runs to its await.
GetTeamRosterEntered(abbrev, seasonAbbrev, ups) ==
    /\ args' = [tool |-> "get-team-roster", teamAbbrev |-> abbrev,
                seasonAbbrev |-> seasonAbbrev]
    /\ upstream' = ups
    /\ fetches' = <<SeasonRosterUrl(BasicTeamCodeOf(abbrev), seasonAbbrev)>>
    /\ pc' = "roster_fetch"
    /\ UNCHANGED <<lastOutcome, idx, teamData, playerData, standingsData, result,
                   errorMessages, statsData, teamName, teamAbbrev, lookupUrls,
                   response>>
    /\ UNCHANGED sideVars

CallGetTeamRoster ==
    /\ pc = "idle"
    /\ \E abbrev \in TeamAbbrevInputs, seasonAbbrev \in SeasonInputs :
         \E doc \in SeasonRosterDocs \cup {Down} :
            GetTeamRosterEntered(abbrev, seasonAbbrev,
                (SeasonRosterUrl(BasicTeamCodeOf(abbrev), seasonAbbrev) :> doc))

\* The resumption after `await makeNHLRequest(rosterUrl)`: the catch
\* clause, the null check, or the display.
TeamRosterStep ==
    /\ pc = "roster_fetch"
    /\ \E o \in Outcomes(fetches[1]) :
       \E req \in {makeNHLRequest(o)} :
         /\ lastOutcome' = OutcomeKind(o)
         /\ IF ~req.ok
            THEN /\ response' = <<RosterErrorText(basicTeamCode, args.seasonAbbrev,
                                                  req.e)>>
                 /\ pc' = "returned"
            ELSE IF ~Truthy(req.v)
            THEN /\ response' = <<RosterFailedText(basicTeamCode, args.seasonAbbrev)>>
                 /\ pc' = "returned"
            ELSE \E out \in {RenderRoster(req.v, basicTeamCode, args.seasonAbbrev)} :
                    IF out.ok
                    THEN response' = out.v /\ pc' = "returned"
                    ELSE response' = NoResponse /\ pc' = "threw"
    /\ UNCHANGED <<args, upstream, fetches, idx, teamData, playerData,
                   standingsData, result, errorMessages, statsData, teamName,
                   teamAbbrev, lookupUrls>>
    /\ UNCHANGED sideVars

\* Every handler of the model.
NextResponses ==
    \/ CallGetTeam
    \/ TeamSourceStep
    \/ TeamStatsStep
    \/ CallGetPlayer
    \/ PlayerSourceStep
    \/ PlayerStatsStep
    \/ PlayerLookupStep
    \/ PlayerRosterStep
    \/ CallGetStandings
    \/ StandingsSourceStep
    \/ CallGetSkaterLeaders
    \/ LeadersSourceStep
    \/ CallGetTeamBasic
    \/ BasicRosterStep
    \/ BasicStatsStep
    \/ CallGetTeamRoster
    \/ TeamRosterStep
    \/ Settle

SpecResponses == Init /\ [][NextResponses]_vars

InTeamRoster == args.tool = "get-team-roster"

\* The texts of the exceptions a handler can meet.
ErrorTexts ==
    {"TypeError", "TypeError: fetch failed", "Error: HTTP error!", "SyntaxError"}

\* The lines that carry a caught error: the messages the source loops
\* collect, and the text of the catch clause of get-team-roster.
ErrorLines ==
    ErrorTexts
      \cup Range(errorMessages)
      \cup (IF InTeamRoster
            THEN { RosterErrorText(basicTeamCode, args.seasonAbbrev, e) :
                     e \in ErrorTexts }
            ELSE {})

\* C18: no text returned to the caller holds an exception text or a line
\* built from a caught error; makeNHLRequest turns every failure of the
\* fetch into null, so the catch clause around it is never entered and a
\* failed fetch is answered with the fixed message.
C18_NoErrorTextInResponse ==
    /\ \A e \in FetchErrors : makeNHLRequest(e) = Ok(Null)
    /\ pc = "returned" => Range(response) \cap ErrorLines = {}
    /\ (InTeamRoster /\ pc = "returned" /\ lastOutcome.kind /= "json") =>
          response = <<RosterFailedText(basicTeamCode, args.seasonAbbrev)>>

C18_Witness ==
    /\ InTeamRoster
    /\ pc = "returned"
    /\ lastOutcome.kind = "status"
    /\ response = <<RosterFailedText(basicTeamCode, args.seasonAbbrev)>>

-----------------------------------------------------------------------------
(***************************************************************************)
(* What counts as a division or a conference.                              *)
(***************************************************************************)
\* A division or conference value that carries a name.
NamedValue(v) == v.t = "object" /\ Truthy(Get(v, "name"))

\* The loop of get-team took its break before the last source.
TeamLoopStoppedEarly == InTeam /\ TeamLoopEnded /\ idx < Len(TeamSourceUrls)

\* C19: a division or conference without a name (an empty object, an empty
\* array, an object of undefined members) is absent: the merge never puts
\* one into the accumulator, and the loop of get-team never stops before
\* its last source on one.
C19_CompleteOnlyByRealData ==
    InTeam =>
        \A k \in {"division", "conference"} :
            /\ k \in DOMAIN teamData => NamedValue(teamData[k])
            /\ TeamLoopStoppedEarly => NamedValue(Field(teamData, k))

-----------------------------------------------------------------------------
(***************************************************************************)
(* The fetches after the source loop.                                      *)
(***************************************************************************)
\* The handler has issued a fetch after its source loop.
EnrichmentIssued == Len(fetches) > idx

\* C20: an enrichment fetch (the club stats of a team; the game log and
\* the team-name lookup of a player) is issued only after the source loop
\* found the entity, never on the way to NotFound, and the team's stats
\* are fetched only while the record has no stats of its own.
C20_EnrichmentOnlyWhenNeeded ==
    /\ (InTeam /\ EnrichmentIssued) =>
          /\ TeamLoopEnded
          /\ ~TeamMissing(teamData)
          /\ response /= <<TeamNotFoundText(teamCode)>>
          /\ ~Truthy(Field(teamData, "record"))
    /\ (InPlayer /\ EnrichmentIssued) =>
          /\ pc /= "player_source"
          /\ Truthy(playerData)
          /\ response /= <<PlayerNotFoundText(args.playerId)>>

-----------------------------------------------------------------------------
(***************************************************************************)
(* Where the numbers of the team record come from.                         *)
(***************************************************************************)
\* The numeric fields of teamData.record.
RecordFields == {"wins", "losses", "otLosses", "points"}

\* data.teamStats[0] of a Club Stats document, the row the parser reads.
ClubStatsRowOf(doc) ==
    IF Truthy(Get(doc, "teamStats")) THEN Index(Get(doc, "teamStats"), 0) ELSE Undef

\* foundTeam of a Standings document, the row the parser reads.
StandingsRowOf(doc, code) ==
    LET Found(found) == IF found.ok THEN found.v ELSE Undef
    IN Found(FindDivision(Or(OptGet(Get(doc, "standings"), "divisionStandings"),
                             Or(Get(doc, "divisionStandings"),
                                Or(Get(doc, "records"), EmptyArray))),
                          code))

\* The rows the parsers of the running get-team have read a record from:
\* those of the sources whose response has been handled.
RecordRowsRead ==
    LET handled == IF pc = "team_source" THEN idx - 1 ELSE idx
        Row(doc, name) ==
            IF doc = Down \/ ~Truthy(doc) THEN Undef
            ELSE IF name = "Club Stats API" THEN ClubStatsRowOf(doc)
            ELSE IF name = "Standings API" THEN StandingsRowOf(doc, teamCode)
            ELSE Undef
    IN { Row(Served(TeamEndpoints(teamCode)[i].url), TeamEndpoints(teamCode)[i].name) :
            i \in 1..handled }

\* C21: a number of the team record is 0 only when a row read from the
\* upstream carries an explicit 0 under that key: neither a parser nor the
\* merge puts a 0 where the upstream document has no value.
C21_ZeroOnlyFromUpstream ==
    (InTeam /\ Truthy(Field(teamData, "record"))) =>
        \A k \in RecordFields :
            Get(Field(teamData, "record"), k) = Num(0)
                => \E row \in RecordRowsRead :
                      Truthy(row) /\ row.t = "object" /\ Get(row, k) = Num(0)

-----------------------------------------------------------------------------
(***************************************************************************)
(* Explicit 0 and false.  The Club Stats parser of get-team (demo.ts       *)
(* 216-232), the playerInfo lines of get-player (demo.ts 596-607) and      *)
(* formatPlayer of get-team-roster (part_001 561-572) are applied on their *)
(* own to documents in which a key is missing, holds 0 or false, or holds  *)
(* another value.                                                          *)
(***************************************************************************)
\* A key that is missing or holds one of the values.
Optional(k, values) == {<<>>} \cup {k :> v : v \in values}

\* The object without one of its keys.
Without(doc, k) == Obj([x \in (DOMAIN doc.f) \ {k} |-> doc.f[x]])

ExplicitClubStatsDocs ==
    { Obj(a @@ b @@ c) :
        a \in Optional("teamId", {Num(0), Num(10)}),
        b \in Optional("id", {Num(11)}),
        c \in Optional("teamStats",
                       { Arr(<<Obj(w @@ p)>>) :
                            w \in Optional("wins", {Num(0), Num(3)}),
                            p \in Optional("points", {Num(0), Num(7)}) }) }

ExplicitPlayerDocs ==
    { Obj(("fullName" :> Str("Connor McDavid")) @@ a @@ b @@ c) :
        a \in Optional("sweaterNumber", {Num(0), Num(97)}),
        b \in Optional("weight", {Num(0), Num(194)}),
        c \in Optional("rookie", {Bool(FALSE), Bool(TRUE)}) }

ExplicitRosterPlayers ==
    { Obj(("firstName" :> Str("Auston")) @@ ("lastName" :> Str("Matthews"))
            @@ a @@ b @@ c) :
        a \in Optional("sweaterNumber", {Num(0), Num(34)}),
        b \in Optional("heightInInches", {Num(0), Num(75)}),
        c \in Optional("weightInPounds", {Num(0), Num(215)}) }

ExplicitSites == {"parseTeam", "playerInfo", "formatPlayer"}

ExplicitDocs(site) ==
    CASE site = "parseTeam"  -> ExplicitClubStatsDocs
      [] site = "playerInfo" -> ExplicitPlayerDocs
      [] OTHER               -> ExplicitRosterPlayers

\* What the code of one site makes of a document.
RenderAt(site, doc) ==
    CASE site = "parseTeam"  -> parseTeamClubStats(doc, "TOR")
      [] site = "playerInfo" -> Ok(PlayerInfoLines(doc, 8478402, Str("Edmonton Oilers")))
      [] OTHER               -> Ok(formatPlayer(doc))

InitExplicit ==
    /\ pc = "idle"
    /\ \E site \in ExplicitSites :
         \E doc \in ExplicitDocs(site) :
            args = [tool |-> "explicit", site |-> site, doc |-> doc]
    /\ upstream = <<>>
    /\ fetches = <<>>
    /\ lastOutcome = NoOutcome
    /\ idx = 0
    /\ teamData = <<>>
    /\ playerData = Null
    /\ standingsData = Null
    /\ result = Null
    /\ errorMessages = <<>>
    /\ statsData = Null
    /\ teamName = Undef
    /\ teamAbbrev = Undef
    /\ lookupUrls = <<>>
    /\ response = NoResponse
    /\ returned = NoValue
    /\ previous = NoValue
    /\ other = NoValue
    /\ timeZone = "UTC"
    /\ schedule = NoValue

ApplyRender ==
    /\ pc = "idle"
    /\ args.tool = "explicit"
    /\ returned' = RenderAt(args.site, args.doc)
    /\ pc' = IF returned'.ok THEN "returned" ELSE "threw"
    /\ UNCHANGED <<args, upstream, fetches, lastOutcome, idx, teamData,
                   playerData, standingsData, result, errorMessages, statsData,
                   teamName, teamAbbrev, lookupUrls, response, previous, other,
                   timeZone, schedule>>

NextExplicit ==
    \/ ApplyRender

SpecExplicit == InitExplicit /\ [][NextExplicit]_vars

\* The code of a site has been applied to its document.
RenderApplied == args.tool = "explicit" /\ pc /= "idle"

\* The key holds an explicit 0 or false.
ZeroOrFalse(doc, k) == Get(doc, k) \in {Num(0), Bool(FALSE)}

\* C22: an explicit 0 or false is present data.  The parser keeps it under
\* its own key, whatever an alternate key holds; the text shows it as its
\* value ("Weight: 0 lbs", "Rookie: No", "#0"), so a document with the 0
\* never renders like the same document without the key.
C22_ExplicitZeroIsPresent ==
    RenderApplied =>
        /\ returned.ok
        /\ args.site = "parseTeam" =>
              /\ ZeroOrFalse(args.doc, "teamId")
                    => Field(returned.v, "teamId") = Get(args.doc, "teamId")
              /\ \A k \in {"wins", "points"} :
                    ZeroOrFalse(ClubStatsRowOf(args.doc), k)
                        => Get(Field(returned.v, "record"), k) = Num(0)
        /\ args.site = "playerInfo" =>
              /\ ZeroOrFalse(args.doc, "sweaterNumber")
                    => returned.v[3] = "Jersey Number: 0"
              /\ ZeroOrFalse(args.doc, "weight")
                    => returned.v[8] = "Weight: 0 lbs"
              /\ ZeroOrFalse(args.doc, "rookie")
                    => returned.v[10] = "Rookie: No"
        /\ args.site = "formatPlayer" =>
              \A k \in {"sweaterNumber", "heightInInches", "weightInPounds"} :
                    ZeroOrFalse(args.doc, k)
                        => returned.v /= formatPlayer(Without(args.doc, k))

-----------------------------------------------------------------------------
(***************************************************************************)
(* What becomes of a player source that lacks the name.                    *)
(***************************************************************************)
\* The fields of a player record both sources of get-player can supply.
PlayerFields ==
    {"position", "sweaterNumber", "birthDate", "birthCity", "birthCountry",
     "height", "weight", "teamId", "shootsCatches", "rookie"}

\* The partial record parsed from source i of get-player, when its fetch
\* succeeded and its parser returned.
PlayerYield(i) ==
    LET Parsed(doc, parsed) ==
            IF doc = Down \/ ~Truthy(doc) THEN EmptyObject
            ELSE IF ~parsed.ok \/ ~Truthy(parsed.v) THEN EmptyObject
            ELSE parsed.v
        Yield(endpoint) ==
            Parsed(Served(endpoint.url), parsePlayer(endpoint.name, Served(endpoint.url)))
    IN Yield(PlayerEndpoints(args.playerId)[i])

\* The source loop of get-player is over with a player.
PlayerLoopFound == InPlayer /\ pc /= "player_source" /\ Truthy(playerData)

\* C23: get-player merges what every fetched source supplies: a field the
\* first source holds is in the final record also when the first source
\* lacks the name and the second source supplies it.
C23_PlayerSourcesMerged ==
    (PlayerLoopFound /\ idx = 2) =>
        \A k \in PlayerFields :
            ~Nullish(Get(PlayerYield(1), k)) => ~Nullish(Get(playerData, k))

-----------------------------------------------------------------------------
(***************************************************************************)
(* The parse functions on the documents the sources serve.                 *)
(***************************************************************************)
\* The sources of the running query whose response has been handled.
SourcesHandled ==
    IF pc \in {"team_source", "player_source", "leaders_source"} THEN idx - 1 ELSE idx

\* What the parse function of source i of the running query does with the
\* document the source serves; Ok when there is no document to parse.
ParseOutcome(i) ==
    LET TeamParse(endpoint) ==
            IF Served(endpoint.url) = Down \/ ~Truthy(Served(endpoint.url)) THEN Ok(<<>>)
            ELSE parseTeam(endpoint.name, Served(endpoint.url), teamCode)
        PlayerParse(endpoint) ==
            IF Served(endpoint.url) = Down \/ ~Truthy(Served(endpoint.url)) THEN Ok(<<>>)
            ELSE parsePlayer(endpoint.name, Served(endpoint.url))
        LeadersParse(endpoint) ==
            IF Served(endpoint.url) = Down \/ ~Truthy(Served(endpoint.url)) THEN Ok(<<>>)
            ELSE extract(endpoint.format, Served(endpoint.url), args.category)
    IN CASE InTeam    -> TeamParse(TeamEndpoints(teamCode)[i])
         [] InPlayer  -> PlayerParse(PlayerEndpoints(args.playerId)[i])
         [] InLeaders -> LeadersParse(LeadersEndpoints(args.category, args.limit)[i])

\* C24: the parse function of a source never raises: whatever the shape of
\* the document fetched, parseTeam, parsePlayer and extract return a
\* (possibly empty) partial record.
C24_ParseNeverRaises ==
    (InTeam \/ InPlayer \/ InLeaders) =>
        \A i \in 1..SourcesHandled : ParseOutcome(i).ok

-----------------------------------------------------------------------------
(***************************************************************************)
(* The failure record of a team query.                                     *)
(***************************************************************************)
\* The reasons a fetch fails with: what fetch, the status check and
\* response.json() throw inside makeNHLRequest.
FetchFailureReasons == {"TypeError: fetch failed", "Error: HTTP error!", "SyntaxError"}

\* The sources of the running get-team whose fetch has failed.
TeamSourcesFailed ==
    {i \in 1..SourcesHandled : Served(TeamSourceUrls[i]) = Down}

\* errorMessages holds the reason of the failed fetch of source i.
FailureRecorded(i) ==
    \E reason \in FetchFailureReasons :
        ("Error with " \o TeamEndpoints(teamCode)[i].name \o ": " \o reason)
            \in Range(errorMessages)

\* C25: every fetch failure of a team query is recorded with its reason
\* before the loop goes on: after k failed fetches errorMessages holds the
\* k reasons, one for each failed source.
C25_FetchFailuresRecorded ==
    InTeam =>
        /\ \A i \in TeamSourcesFailed : FailureRecorded(i)
        /\ Len(errorMessages) >= Cardinality(TeamSourcesFailed)

-----------------------------------------------------------------------------
(***************************************************************************)
(* The order of the fetches of the source loop of get-team (demo.ts        *)
(* 331-359, part_001 416-444).                                             *)
(***************************************************************************)
\* C26: the sources of get-team are fetched one at a time in the order of
\* the list, none of them twice: while the loop runs, the fetches issued
\* are the first idx sources and only the last is unanswered; a step of
\* the loop merges the parse result of the answered source, and the next
\* source is fetched only when the merged accumulator is not complete.
C26_SourcesFetchedInOrder ==
    [][ (InTeam /\ pc = "team_source") =>
          /\ fetches = SubSeq(TeamSourceUrls, 1, idx)
          /\ Len(fetches) - (idx - 1) = 1
          /\ \A i, j \in 1..Len(fetches) : i /= j => fetches[i] /= fetches[j]
          /\ teamData' = IF ParseOutcome(idx).ok
                         THEN MergeTeam(teamData, ParseOutcome(idx).v)
                         ELSE teamData
          /\ pc' = "team_source" =>
                /\ ~TeamComplete(teamData')
                /\ idx' = idx + 1
                /\ fetches' = Append(fetches, TeamSourceUrls[idx + 1]) ]_vars

\* Two sources have been answered and merged, the third is being fetched.
C26_Witness ==
    /\ InTeam
    /\ pc = "team_source"
    /\ idx = 3
    /\ fetches = SubSeq(TeamSourceUrls, 1, 3)
    /\ Truthy(Field(teamData, "name"))
    /\ ~TeamComplete(teamData)

-----------------------------------------------------------------------------
(***************************************************************************)
(* The `Team:` line of get-team (demo.ts 378-389, part_001 463-474).       *)
(***************************************************************************)
\* get-team has returned its text, not the NotFound message.
TeamRendered ==
    InTeam /\ pc = "returned" /\ response /= <<TeamNotFoundText(teamCode)>>

\* The name the Team: line is to show: the accumulator's name; without a
\* name the location name and the team name; without those the code.
TeamLineOf(acc, code) ==
    IF Truthy(Field(acc, "name")) THEN JsString(Field(acc, "name"))
    ELSE IF Truthy(And(Field(acc, "locationName"), Field(acc, "teamName")))
    THEN JsString(Field(acc, "locationName")) \o " " \o JsString(Field(acc, "teamName"))
    ELSE code \o " (name unavailable)"

\* C27: the Team: line of a successful get-team shows the name held by the
\* accumulator whenever there is one; location name and team name are
\* combined only without a name, and "(name unavailable)" is shown only
\* without both.
C27_TeamLineShowsName ==
    TeamRendered => response[1] = "Team: " \o TeamLineOf(teamData, teamCode)

-----------------------------------------------------------------------------
(***************************************************************************)
(* get-date-range-schedule (src/unnamed/part_001 3120-3315).  The handler  *)
(* parses both dates with new Date(), which reads a date-only text as      *)
(* midnight UTC, steps through the range with setDate(getDate() + 1),      *)
(* which works on the local calendar of the process, and names each date   *)
(* with toISOString(), which is UTC again.  An instant is a number of      *)
(* hours since 2025-01-01T00:00Z; the dates drawn lie in 2025.             *)
(***************************************************************************)
DigitChars == <<"0", "1", "2", "3", "4", "5", "6", "7", "8", "9">>

IsDigit(c) == \E i \in 1..10 : DigitChars[i] = c

DigitValue(c) == (CHOOSE i \in 1..10 : DigitChars[i] = c) - 1

\* /^\d{4}-\d{2}-\d{2}$/.test(chars)
dateRegex(chars) ==
    /\ Len(chars) = 10
    /\ \A i \in {1, 2, 3, 4, 6, 7, 9, 10} : IsDigit(chars[i])
    /\ chars[5] = "-"
    /\ chars[8] = "-"

\* The days of the year before the first of each month (no leap year from
\* 2025 to 2027).
DaysBeforeMonth == <<0, 31, 59, 90, 120, 151, 181, 212, 243, 273, 304, 334>>

NaN == [t |-> "NaN"]

\* new Date(chars).getTime() for a text that passed dateRegex: midnight
\* UTC of the date, NaN for a month or day that no calendar has.  (A day
\* that only this month lacks, like 02-30, is not drawn.)
DateValue(chars) ==
    LET year  == 1000 * DigitValue(chars[1]) + 100 * DigitValue(chars[2])
                    + 10 * DigitValue(chars[3]) + DigitValue(chars[4])
        month == 10 * DigitValue(chars[6]) + DigitValue(chars[7])
        day   == 10 * DigitValue(chars[9]) + DigitValue(chars[10])
    IN IF month \notin 1..12 \/ day \notin 1..31 THEN NaN
       ELSE Num(24 * ((year - 2025) * 365 + DaysBeforeMonth[month] + day - 1))

\* String(n).padStart(2, "0")
TwoDigits(n) == IF n < 10 THEN "0" \o ToString(n) ELSE ToString(n)

\* date.toISOString().split('T')[0]
IsoDate(t) ==
    LET days  == t \div 24
        year  == 2025 + days \div 365
        doy   == days % 365
        month == CHOOSE m \in 1..12 :
                    /\ DaysBeforeMonth[m] <= doy
                    /\ m < 12 => doy < DaysBeforeMonth[m + 1]
    IN ToString(year) \o "-" \o TwoDigits(month) \o "-"
          \o TwoDigits(doy - DaysBeforeMonth[month] + 1)

\* The instants at which the clocks of America/New_York change in 2025:
\* 2025-03-09T07:00Z and 2025-11-02T06:00Z.
SpringForward == 24 * (DaysBeforeMonth[3] + 8) + 7
FallBack      == 24 * (DaysBeforeMonth[11] + 1) + 6

TimeZones == {"UTC", "America/New_York"}

\* The offset of local time from UTC at an instant, in hours.
Offset(tz, t) ==
    IF tz = "UTC" THEN 0
    ELSE IF t >= SpringForward /\ t < FallBack THEN -4 ELSE -5

\* date.setDate(date.getDate() + 1): the same local time of day on the
\* next local day; a local time that occurs twice is the earlier instant.
NextLocalDay(tz, t) ==
    LET Resolve(local, instants) ==
            IF instants = {} THEN local - Offset(tz, t)
            ELSE CHOOSE u \in instants : \A v \in instants : u <= v
        SameTimeTomorrow(local) ==
            Resolve(local, {u \in {local, local + 4, local + 5} :
                                u + Offset(tz, u) = local})
    IN SameTimeTomorrow(t + Offset(tz, t) + 24)

\* const dates = []; while (currentDate <= end) { dates.push(...); ... }
RECURSIVE DatesOfRange(_, _, _)
DatesOfRange(tz, currentDate, end) ==
    IF currentDate > end THEN <<>>
    ELSE <<IsoDate(currentDate)>>
            \o DatesOfRange(tz, NextLocalDay(tz, currentDate), end)

ScheduleUrl(date) == NHL_WEB_API_BASE \o "/schedule/" \o date

InvalidFormatText == "Invalid date format. Please provide dates in YYYY-MM-DD format."
InvalidValuesText == "Invalid date values. Please provide valid dates."
StartAfterEndText == "Start date must be before or equal to end date."
RangeTooLargeText == "Date range too large. Please limit to 14 days or less."

\* The row of one game; the games drawn carry no startTimeUTC, so the
\* time is "TBD".  A TypeError for a game that is null or undefined.
GameRow(game) ==
    LET state == Get(game, "gameState")
        pd    == Get(game, "periodDescriptor")
        team(side) ==
            IF Truthy(Get(game, side))
            THEN safeStringUnwrap(Get(Get(game, side), "abbrev"), "N/A").v
            ELSE Str("N/A")
        played == \/ StrictEq(state, Str("LIVE")) \/ StrictEq(state, Str("FINAL"))
                  \/ StrictEq(state, Str("OFF"))
        status ==
            IF StrictEq(state, Str("LIVE"))
            THEN "Live" \o (IF Truthy(pd)
                            THEN " (" \o JsString(Get(pd, "number"))
                                    \o JsString(Get(pd, "periodType")) \o ")"
                            ELSE "")
            ELSE IF StrictEq(state, Str("FINAL")) \/ StrictEq(state, Str("OFF"))
            THEN "Final" \o (IF Truthy(pd) /\ StrictEq(Get(pd, "periodType"), Str("OT"))
                             THEN " (OT)"
                             ELSE IF Truthy(pd) /\ StrictEq(Get(pd, "periodType"), Str("SO"))
                             THEN " (SO)" ELSE "")
            ELSE "Scheduled"
        score(side) ==
            IF Truthy(Get(game, side)) THEN JsString(Get(Get(game, side), "score"))
            ELSE "0"
    IN IF Nullish(game) THEN Throw("TypeError")
       ELSE Ok("| TBD | " \o JsString(team("awayTeam")) \o " | "
                  \o JsString(team("homeTeam")) \o " | " \o status \o " | "
                  \o (IF played THEN score("awayTeam") \o " - " \o score("homeTeam")
                      ELSE "N/A") \o " |")

\* The callback of gameWeek.forEach for one day: [ok, lines, games, found],
\* the lines it pushes, the games it adds to totalGames and whether the
\* day is the date asked for.  Numbers of games are numbers here.
ScheduleDay(day, date) ==
    LET numberOfGames == Or(Get(day, "numberOfGames"), Num(0))
        head == "## " \o JsString(Get(day, "date")) \o " ("
                   \o JsString(Get(day, "dayAbbrev")) \o ") - "
                   \o JsString(numberOfGames) \o " games\n"
        games == Get(day, "games")
        Rows(rows) ==
            IF \E i \in DOMAIN rows : ~rows[i].ok THEN [ok |-> FALSE, e |-> "TypeError"]
            ELSE [ok |-> TRUE, found |-> TRUE, games |-> numberOfGames.n,
                  lines |-> <<head,
                              "| Time (ET) | Away Team | Home Team | Status | Score |",
                              "|-----------|-----------|-----------|--------|-------|">>
                            \o [i \in DOMAIN rows |-> rows[i].v] \o <<"">>]
    IN IF Nullish(day) THEN [ok |-> FALSE, e |-> "TypeError"]
       ELSE IF ~StrictEq(Get(day, "date"), Str(date))
       THEN [ok |-> TRUE, found |-> FALSE, games |-> 0, lines |-> <<>>]
       ELSE IF ~Truthy(games) \/ StrictEq(Length(games), Num(0))
       THEN [ok |-> TRUE, found |-> TRUE, games |-> numberOfGames.n,
             lines |-> <<head, "No games scheduled for this date.\n">>]
       ELSE IF games.t /= "array" THEN [ok |-> FALSE, e |-> "TypeError"]
       ELSE Rows([i \in 1..Len(games.e) |-> GameRow(games.e[i])])

\* scheduleData.gameWeek.forEach(...) over the days from position i on.
RECURSIVE ScheduleDays(_, _, _)
ScheduleDays(days, i, date) ==
    IF i > Len(days) THEN [ok |-> TRUE, found |-> FALSE, games |-> 0, lines |-> <<>>]
    ELSE LET Joined(d, rest) ==
                 IF ~d.ok THEN d
                 ELSE IF ~rest.ok THEN rest
                 ELSE [ok |-> TRUE, found |-> d.found \/ rest.found,
                       games |-> d.games + rest.games, lines |-> d.lines \o rest.lines]
         IN Joined(ScheduleDay(days[i], date), ScheduleDays(days, i + 1, date))

\* The body of `for (const date of dates)` after the await: [ok, lines,
\* games], or the TypeError that leaves the handler.
ScheduleIteration(date, req) ==
    LET Failed(line) == [ok |-> TRUE, games |-> 0, lines |-> <<line>>]
        Week(w) ==
            IF ~w.ok THEN w
            ELSE IF w.found THEN [ok |-> TRUE, games |-> w.games, lines |-> w.lines]
            ELSE [ok |-> TRUE, games |-> w.games,
                  lines |-> w.lines \o <<"## " \o date \o " - No games scheduled\n">>]
    IN IF ~req.ok
       THEN Failed("## " \o date \o " - Error retrieving schedule data: " \o req.e)
       ELSE IF ~Truthy(req.v) \/ ~Truthy(Get(req.v, "gameWeek"))
       THEN Failed("## " \o date \o " - Failed to retrieve schedule data")
       ELSE IF Get(req.v, "gameWeek").t /= "array" THEN [ok |-> FALSE, e |-> "TypeError"]
       ELSE Week(ScheduleDays(Get(req.v, "gameWeek").e, 1, date))

\* The summary pushed after the loop.
ScheduleSummary(totalGames, startDate, endDate, dayDiff) ==
    << "\n## Summary",
       "Total Games in Range: " \o ToString(totalGames),
       "Date Range: " \o startDate \o " to " \o endDate \o " ("
          \o ToString(dayDiff) \o " days)" >>

\* One day of a gameWeek, with or without a game.
ScheduleDayDoc(date, games) ==
    Obj([date |-> Str(date), dayAbbrev |-> Str("SAT"),
         numberOfGames |-> Num(Len(games)), games |-> Arr(games)])

ScheduleGame ==
    Obj([gameState |-> Str("FINAL"),
         awayTeam |-> Obj([abbrev |-> Str("TOR"), score |-> Num(3)]),
         homeTeam |-> Obj([abbrev |-> Str("BOS"), score |-> Num(2)]),
         periodDescriptor |-> Obj([number |-> Num(4), periodType |-> Str("OT")])])

\* What /schedule/<date> may serve: nothing usable, a week with the day
\* (without and with a game), a gameWeek that is not a list.
ScheduleDocOfKind(k, date) ==
    CASE k = 1 -> EmptyObject
      [] k = 2 -> Obj([gameWeek |-> Arr(<<ScheduleDayDoc(date, <<>>)>>)])
      [] k = 3 -> Obj([gameWeek |-> Arr(<<ScheduleDayDoc(date, <<ScheduleGame>>)>>)])
      [] OTHER -> Obj([gameWeek |-> Obj([total |-> Num(7)])])

ScheduleDocs(date) == {ScheduleDocOfKind(k, date) : k \in 1..4}

\* startDate and endDate as z.string() admits them, character by character.
DateChars(m, d) == <<"2", "0", "2", "5", "-">> \o m \o <<"-">> \o d

DateRangeInputs ==
    { <<DateChars(<<"0", "3">>, <<"0", "1">>), DateChars(<<"0", "3">>, <<"0", "2">>)>>,
      <<DateChars(<<"0", "3">>, <<"0", "8">>), DateChars(<<"0", "3">>, <<"1", "0">>)>>,
      <<DateChars(<<"1", "1">>, <<"0", "1">>), DateChars(<<"1", "1">>, <<"0", "2">>)>>,
      <<DateChars(<<"0", "2">>, <<"2", "7">>), DateChars(<<"0", "3">>, <<"0", "1">>)>>,
      <<DateChars(<<"0", "3">>, <<"0", "8">>), DateChars(<<"0", "3">>, <<"0", "8">>)>>,
      <<DateChars(<<"0", "3">>, <<"0", "1">>), DateChars(<<"0", "3">>, <<"1", "4">>)>>,
      <<DateChars(<<"0", "3">>, <<"0", "1">>), DateChars(<<"0", "3">>, <<"1", "5">>)>>,
      <<DateChars(<<"0", "3">>, <<"1", "0">>), DateChars(<<"0", "3">>, <<"0", "8">>)>>,
      <<DateChars(<<"1", "3">>, <<"0", "1">>), DateChars(<<"0", "3">>, <<"0", "8">>)>>,
      <<DateChars(<<"3">>, <<"8">>), DateChars(<<"0", "3">>, <<"0", "8">>)>> }

\* The calendar dates from one instant to another, both midnight UTC.
CalendarDates(start, end) ==
    [i \in 1..((end - start) \div 24 + 1) |-> IsoDate(start + 24 * (i - 1))]

\* The upstreams of one call: for a range of up to three dates every
\* combination of what the dates serve, for a longer one the same kind of
\* answer for every date; nothing when the handler rejects the arguments.
ScheduleUpstreams(startDate, endDate) ==
    LET DocOfKind(k, date) == IF k = 0 THEN Down ELSE ScheduleDocOfKind(k, date)
        Position(dates, u) == CHOOSE i \in DOMAIN dates : ScheduleUrl(dates[i]) = u
        Serving(dates, kinds) ==
            [u \in {ScheduleUrl(dates[i]) : i \in DOMAIN dates} |->
                DocOfKind(kinds[Position(dates, u)], dates[Position(dates, u)])]
        Over(dates) ==
            IF Len(dates) <= 3
            THEN {Serving(dates, kinds) : kinds \in [DOMAIN dates -> 0..4]}
            ELSE {Serving(dates, [i \in DOMAIN dates |-> k]) : k \in 0..4}
        Admitted(start, end) ==
            IF start = NaN \/ end = NaN THEN {<<>>}
            ELSE IF start.n > end.n \/ (end.n - start.n) \div 24 + 1 > 14 THEN {<<>>}
            ELSE Over(CalendarDates(start.n, end.n))
    IN IF ~dateRegex(startDate) \/ ~dateRegex(endDate) THEN {<<>>}
       ELSE Admitted(DateValue(startDate), DateValue(endDate))

\* The handler is entered: the arguments are validated, the dates of the
\* range are listed and the schedule of the first date is fetched.
GetDateRangeScheduleEntered(startDate, endDate, ups) ==
    LET start == DateValue(startDate)
        end   == DateValue(endDate)
        Rejected(text) ==
            /\ response' = <<text>>
            /\ pc' = "returned"
            /\ UNCHANGED <<fetches, idx, schedule>>
        Listed(dates, dayDiff) ==
            /\ schedule' = [dates |-> dates, dayDiff |-> dayDiff, totalGames |-> 0,
                            formattedSchedule |->
                                <<"# NHL Schedule - " \o JoinStr(startDate, "") \o " to "
                                     \o JoinStr(endDate, "") \o "\n">>]
            /\ idx' = 1
            /\ fetches' = <<ScheduleUrl(dates[1])>>
            /\ pc' = "schedule_date"
            /\ UNCHANGED response
    IN
    /\ args' = [tool |-> "get-date-range-schedule", startDate |-> startDate,
                endDate |-> endDate]
    /\ upstream' = ups
    /\ IF ~dateRegex(startDate) \/ ~dateRegex(endDate) THEN Rejected(InvalidFormatText)
       ELSE IF start = NaN \/ end = NaN THEN Rejected(InvalidValuesText)
       ELSE IF start.n > end.n THEN Rejected(StartAfterEndText)
       ELSE IF (end.n - start.n) \div 24 + 1 > 14 THEN Rejected(RangeTooLargeText)
       ELSE Listed(DatesOfRange(timeZone, start.n, end.n), (end.n - start.n) \div 24 + 1)
    /\ UNCHANGED <<lastOutcome, teamData, playerData, standingsData, result,
                   errorMessages, statsData, teamName, teamAbbrev, lookupUrls>>
    /\ UNCHANGED <<returned, previous, other, timeZone>>

CallGetDateRangeSchedule ==
    /\ pc = "idle"
    /\ \E range \in DateRangeInputs :
         \E ups \in ScheduleUpstreams(range[1], range[2]) :
            GetDateRangeScheduleEntered(range[1], range[2], ups)

\* One iteration of `for (const date of dates)` from the resumption after
\* `await makeNHLRequest(scheduleUrl)`; then the fetch of the next date,
\* or the summary and the return.
ScheduleDateStep ==
    /\ pc = "schedule_date"
    /\ \E o \in Outcomes(ScheduleUrl(schedule.dates[idx])) :
       \E it \in {ScheduleIteration(schedule.dates[idx], makeNHLRequest(o))} :
         /\ lastOutcome' = OutcomeKind(o)
         /\ IF ~it.ok
            THEN /\ response' = NoResponse
                 /\ pc' = "threw"
                 /\ UNCHANGED <<idx, fetches, schedule>>
            ELSE /\ schedule' =
                      [schedule EXCEPT
                          !.totalGames = @ + it.games,
                          !.formattedSchedule =
                              IF idx < Len(schedule.dates) THEN @ \o it.lines
                              ELSE @ \o it.lines
                                     \o ScheduleSummary(schedule.totalGames + it.games,
                                                        JoinStr(args.startDate, ""),
                                                        JoinStr(args.endDate, ""),
                                                        schedule.dayDiff)]
                 /\ IF idx < Len(schedule.dates)
                    THEN /\ idx' = idx + 1
                         /\ fetches' = Append(fetches, ScheduleUrl(schedule.dates[idx + 1]))
                         /\ pc' = "schedule_date"
                         /\ UNCHANGED response
                    ELSE /\ response' = schedule'.formattedSchedule
                         /\ pc' = "returned"
                         /\ UNCHANGED <<idx, fetches>>
    /\ UNCHANGED <<args, upstream, teamData, playerData, standingsData, result,
                   errorMessages, statsData, teamName, teamAbbrev, lookupUrls>>
    /\ UNCHANGED <<returned, previous, other, timeZone>>

\* The call is over; the locals of the handler are gone with it.
SettleSchedule ==
    /\ pc \in {"returned", "threw"}
    /\ args.tool = "get-date-range-schedule"
    /\ pc' = "idle"
    /\ args' = [tool |-> "none"]
    /\ upstream' = <<>>
    /\ fetches' = <<>>
    /\ lastOutcome' = NoOutcome
    /\ idx' = 0
    /\ response' = NoResponse
    /\ schedule' = NoValue
    /\ UNCHANGED <<teamData, playerData, standingsData, result, errorMessages,
                   statsData, teamName, teamAbbrev, lookupUrls>>
    /\ UNCHANGED <<returned, previous, other, timeZone>>

\* The server starts in one of the time zones.
InitSchedule ==
    /\ Idle
    /\ returned = NoValue
    /\ previous = NoValue
    /\ other = NoValue
    /\ timeZone \in TimeZones
    /\ schedule = NoValue

NextSchedule ==
    \/ CallGetDateRangeSchedule
    \/ ScheduleDateStep
    \/ SettleSchedule

SpecSchedule == InitSchedule /\ [][NextSchedule]_vars

InSchedule == args.tool = "get-date-range-schedule"

\* The URLs of the calendar dates from startDate to endDate, in order.
RangeUrls ==
    LET Urls(dates) == [i \in DOMAIN dates |-> ScheduleUrl(dates[i])]
    IN Urls(CalendarDates(DateValue(args.startDate).n, DateValue(args.endDate).n))

\* C28: get-date-range-schedule fetches the schedule of each calendar date
\* from startDate to endDate once, in ascending order and never more than
\* 14 in a query: at any moment the fetches issued are the first dates of
\* the range, a date that fails or serves nothing usable does not end the
\* query, and the query returns with every date of the range fetched.
C28_OneFetchPerDateOfRange ==
    (InSchedule /\ schedule /= NoValue) =>
        /\ Len(fetches) <= 14
        /\ Len(fetches) <= Len(RangeUrls)
        /\ fetches = SubSeq(RangeUrls, 1, Len(fetches))
        /\ pc /= "threw"
        /\ pc = "returned" => fetches = RangeUrls

-----------------------------------------------------------------------------
(***************************************************************************)
(* get-game-play-by-play (src/unnamed/part_001 3791-4076).  The plays      *)
(* drawn are goals, shots on goal, hits, face-offs and period starts;      *)
(* their typeDescKey is a string.                                          *)
(***************************************************************************)
PlayByPlayUrl(gameId) == NHL_WEB_API_BASE \o "/gamecenter/" \o gameId \o "/play-by-play"

PlayByPlayFailedText ==
    "Failed to retrieve play-by-play data. The NHL API might be unavailable or the game ID might be invalid."

PlayByPlayErrorText(error) == "Error retrieving play-by-play data: " \o error

\* safeString(v) of this handler inside a template literal.
CoercedText(v) == JsString(safeStringCoerce(v, "N/A").v)

\* filterByType.toLowerCase() and play.typeDescKey.toLowerCase() on the
\* texts drawn here.
LowerCaseOf(str) ==
    CASE str = "GOAL" -> "goal"
      [] str = "Hit"  -> "hit"
      [] OTHER        -> str

\* typeDescKey.includes(filterLower) on the texts drawn here.
TypeIncludes(typeDescKey, filterLower) ==
    \/ filterLower = ""
    \/ typeDescKey = filterLower
    \/ <<typeDescKey, filterLower>> \in { <<"shot-on-goal", "goal">>,
                                          <<"shot-on-goal", "shot">> }

\* .replace(/-/g, ' ').replace(/\b\w/g, c => c.toUpperCase()) on the
\* texts drawn here.
EventTitle(str) ==
    CASE str = "goal"         -> "Goal"
      [] str = "shot-on-goal" -> "Shot On Goal"
      [] str = "hit"          -> "Hit"
      [] str = "faceoff"      -> "Faceoff"
      [] str = "period-start" -> "Period Start"
      [] OTHER                -> str

\* The callback of plays.filter: a TypeError for a play that is null or
\* undefined.
PlayMatches(play, filterLower) ==
    IF Nullish(play) THEN Throw("TypeError")
    ELSE Ok(TypeIncludes(
                JsString(Or(IF Nullish(Get(play, "typeDescKey")) THEN Undef
                            ELSE Str(LowerCaseOf(Get(play, "typeDescKey").s)),
                            Str(""))),
                filterLower))

\* plays.filter(...): the plays that match, in the order of the list.
RECURSIVE FilterPlays(_, _)
FilterPlays(plays, filterLower) ==
    IF plays = <<>> THEN Ok(<<>>)
    ELSE LET Kept(m, rest) ==
                 IF ~m.ok THEN m
                 ELSE IF ~rest.ok THEN rest
                 ELSE Ok((IF m.v THEN <<Head(plays)>> ELSE <<>>) \o rest.v)
         IN Kept(PlayMatches(Head(plays), filterLower),
                 FilterPlays(Tail(plays), filterLower))

\* A limit that is never applied.
LimitPlaysNever(plays, maxEvents) == plays

\* if (maxEvents > 0 && plays.length > maxEvents) plays = plays.slice(0, maxEvents)
LimitPlays(plays, maxEvents) ==
    IF maxEvents > 0 /\ Len(plays) > maxEvents THEN SubSeq(plays, 1, maxEvents)
    ELSE plays

\* getPlayerName(playerId) against the map built from rosterSpots: the
\* last spot of the list with that id and both names.
getPlayerName(rosterSpots, playerId) ==
    LET Named(spots, hits) ==
            IF hits = {} THEN "Player #" \o JsString(playerId)
            ELSE CoercedText(Get(spots[CHOOSE i \in hits : \A j \in hits : j <= i],
                                 "firstName"))
                    \o " "
                    \o CoercedText(Get(spots[CHOOSE i \in hits : \A j \in hits : j <= i],
                                       "lastName"))
        Lookup(spots) ==
            Named(spots, {i \in DOMAIN spots :
                            /\ Truthy(Get(spots[i], "playerId"))
                            /\ Truthy(Get(spots[i], "firstName"))
                            /\ Truthy(Get(spots[i], "lastName"))
                            /\ Get(spots[i], "playerId") = playerId})
    IN IF Truthy(rosterSpots) /\ rosterSpots.t = "array" THEN Lookup(rosterSpots.e)
       ELSE "Player #" \o JsString(playerId)

\* `x ? getPlayerName(x) : "Unknown player"`
PlayerOrUnknown(rosterSpots, playerId) ==
    IF Truthy(playerId) THEN getPlayerName(rosterSpots, playerId) ELSE "Unknown player"

\* `${number} ${periodType}` of a play or a period.
PeriodText(v) ==
    IF Truthy(Get(v, "periodDescriptor"))
    THEN JsString(Get(Get(v, "periodDescriptor"), "number")) \o " "
            \o JsString(Get(Get(v, "periodDescriptor"), "periodType"))
    ELSE "N/A"

\* let details of one play whose details are truthy.
PlayDetails(play, d, rosterSpots, awayTeam, homeTeam) ==
    LET type == Get(play, "typeDescKey")
        shotType == IF Truthy(Get(d, "shotType"))
                    THEN " (" \o JsString(Get(d, "shotType")) \o ")" ELSE ""
    IN
    CASE StrictEq(type, Str("goal")) ->
            (IF Truthy(Get(d, "scoringPlayerId"))
             THEN "**Goal:** " \o getPlayerName(rosterSpots, Get(d, "scoringPlayerId"))
             ELSE "**Goal**")
            \o (IF Truthy(Get(d, "assist1PlayerId"))
                THEN ", Assist: " \o getPlayerName(rosterSpots, Get(d, "assist1PlayerId"))
                        \o (IF Truthy(Get(d, "assist2PlayerId"))
                            THEN ", " \o getPlayerName(rosterSpots, Get(d, "assist2PlayerId"))
                            ELSE "")
                ELSE "")
            \o shotType
            \o (IF Get(d, "awayScore") /= Undef /\ Get(d, "homeScore") /= Undef
                THEN " | Score: " \o awayTeam \o " " \o JsString(Get(d, "awayScore"))
                        \o ", " \o homeTeam \o " " \o JsString(Get(d, "homeScore"))
                ELSE "")
            \o (IF Truthy(Get(d, "highlightClipSharingUrl"))
                THEN " | [Watch](" \o JsString(Get(d, "highlightClipSharingUrl")) \o ")"
                ELSE "")
      [] StrictEq(type, Str("shot-on-goal")) ->
            "Shot by " \o PlayerOrUnknown(rosterSpots, Get(d, "shootingPlayerId"))
            \o shotType
            \o (IF Truthy(Get(d, "goalieInNetId"))
                THEN " | Saved by: " \o getPlayerName(rosterSpots, Get(d, "goalieInNetId"))
                ELSE "")
      [] StrictEq(type, Str("hit")) ->
            PlayerOrUnknown(rosterSpots, Get(d, "hittingPlayerId")) \o " hit "
            \o PlayerOrUnknown(rosterSpots, Get(d, "hitteePlayerId"))
      [] StrictEq(type, Str("faceoff")) ->
            PlayerOrUnknown(rosterSpots, Get(d, "winningPlayerId"))
            \o " won faceoff against "
            \o PlayerOrUnknown(rosterSpots, Get(d, "losingPlayerId"))
      [] StrictEq(type, Str("period-start")) ->
            "Period " \o PeriodText(play) \o " started"

\* The row pushed for one play; a TypeError for a play that is null or
\* undefined.
PlayRow(play, rosterSpots, awayTeam, homeTeam) ==
    IF Nullish(play) THEN Throw("TypeError")
    ELSE Ok("| " \o PeriodText(play) \o " | "
               \o JsString(Or(Get(play, "timeInPeriod"), Str("00:00"))) \o " | "
               \o EventTitle(CoercedText(Get(play, "typeDescKey"))) \o " | "
               \o (IF Truthy(Get(play, "details"))
                   THEN PlayDetails(play, Get(play, "details"), rosterSpots,
                                    awayTeam, homeTeam)
                   ELSE "")
               \o " |")

\* `${safeString(team.placeName)} ${safeString(team.commonName)}`
GameTeamName(team, fallback) ==
    IF Truthy(team)
    THEN CoercedText(Get(team, "placeName")) \o " " \o CoercedText(Get(team, "commonName"))
    ELSE fallback

\* The lines of the period summary.
PeriodSummaryLines(summary) ==
    LET Stat(v, side, k) == JsString(Or(OptGet(Get(v, side), k), Num(0)))
        PeriodLine(p) ==
            "| " \o PeriodText(p) \o " | " \o Stat(p, "away", "shotsOnGoal") \o " | "
               \o Stat(p, "home", "shotsOnGoal") \o " | " \o Stat(p, "away", "goals")
               \o " | " \o Stat(p, "home", "goals") \o " |"
        byPeriod == Get(summary, "byPeriod")
        totals   == Get(summary, "totals")
    IN <<"", "## Period Summary",
         "| Period | Away Shots | Home Shots | Away Goals | Home Goals |",
         "|--------|------------|------------|-----------|-----------|">>
       \o (IF Truthy(byPeriod) /\ byPeriod.t = "array"
           THEN [i \in 1..Len(byPeriod.e) |-> PeriodLine(byPeriod.e[i])] ELSE <<>>)
       \o (IF Truthy(totals)
           THEN <<"| **Total** | **" \o Stat(totals, "away", "shotsOnGoal") \o "** | **"
                     \o Stat(totals, "home", "shotsOnGoal") \o "** | **"
                     \o Stat(totals, "away", "goals") \o "** | **"
                     \o Stat(totals, "home", "goals") \o "** |">>
           ELSE <<>>)

PlayTableHeader ==
    << "| Period | Time | Event | Details |",
       "|--------|------|-------|---------|" >>

\* Lines 3835-4065: the text of the handler for a document, or the
\* TypeError a play that is null raises.  filterByType is a string or
\* undefined; the periods of the summaries drawn are objects.
RenderPlayByPlay(data, gameId, maxEvents, filterByType) ==
    LET homeTeam  == GameTeamName(Get(data, "homeTeam"), "Home Team")
        awayTeam  == GameTeamName(Get(data, "awayTeam"), "Away Team")
        homeScore == JsString(Or(OptGet(Get(data, "homeTeam"), "score"), Num(0)))
        awayScore == JsString(Or(OptGet(Get(data, "awayTeam"), "score"), Num(0)))
        head ==
            << "# Play-by-Play: " \o awayTeam \o " (" \o awayScore \o ") @ "
                  \o homeTeam \o " (" \o homeScore \o ")",
               "**Game ID:** " \o gameId \o " | **Date:** "
                  \o CoercedText(Get(data, "gameDate")) \o " | **Venue:** "
                  \o CoercedText(Get(data, "venue")),
               "" >>
        tail ==
            << "", "## Game Summary",
               "**Final Score:** " \o awayTeam \o " " \o awayScore \o ", "
                  \o homeTeam \o " " \o homeScore >>
            \o (IF Truthy(Get(data, "gameState"))
                THEN <<"**Game State:** " \o JsString(Get(data, "gameState"))>> ELSE <<>>)
            \o (IF Truthy(Get(data, "summary"))
                THEN PeriodSummaryLines(Get(data, "summary")) ELSE <<>>)
        Table(rows, notice) ==
            IF \E i \in DOMAIN rows : ~rows[i].ok THEN Throw("TypeError")
            ELSE Ok(head \o notice \o PlayTableHeader
                       \o [i \in DOMAIN rows |-> rows[i].v] \o tail)
        Shown(plays, shown) ==
            Table([i \in DOMAIN shown |->
                      PlayRow(shown[i], Get(data, "rosterSpots"), awayTeam, homeTeam)],
                  IF maxEvents > 0 /\ Len(plays) > maxEvents
                  THEN <<"*Showing " \o ToString(maxEvents) \o " of "
                            \o ToString(Len(plays))
                            \o " total events. Use maxEvents=0 to see all events.*">>
                  ELSE <<>>)
        Filtered(plays) ==
            IF ~plays.ok THEN plays
            ELSE Shown(plays.v, LimitPlays(plays.v, maxEvents))
    IN IF Truthy(Get(data, "plays")) /\ Get(data, "plays").t = "array"
       THEN Filtered(IF Truthy(filterByType)
                     THEN FilterPlays(Get(data, "plays").e, LowerCaseOf(filterByType.s))
                     ELSE Ok(Get(data, "plays").e))
       ELSE Ok(head \o <<"No play-by-play data available for this game.">> \o tail)

\* The plays and documents the upstream may serve.
PlayPeriod == Obj([number |-> Num(1), periodType |-> Str("REG")])

PlayPeriodStart ==
    Obj([typeDescKey |-> Str("period-start"), periodDescriptor |-> PlayPeriod,
         timeInPeriod |-> Str("00:00"), details |-> Obj([eventOwnerTeamId |-> Num(10)])])

PlayFaceoff ==
    Obj([typeDescKey |-> Str("faceoff"), periodDescriptor |-> PlayPeriod,
         timeInPeriod |-> Str("00:00"),
         details |-> Obj([winningPlayerId |-> Num(8479318), losingPlayerId |-> Num(8470638)])])

PlayShot ==
    Obj([typeDescKey |-> Str("shot-on-goal"), periodDescriptor |-> PlayPeriod,
         timeInPeriod |-> Str("03:12"),
         details |-> Obj([shootingPlayerId |-> Num(8479318), shotType |-> Str("wrist")])])

PlayHit ==
    Obj([typeDescKey |-> Str("hit"), timeInPeriod |-> Str("04:40"),
         details |-> Obj([hittingPlayerId |-> Num(8470638)])])

PlayGoal ==
    Obj([typeDescKey |-> Str("goal"), periodDescriptor |-> PlayPeriod,
         timeInPeriod |-> Str("05:01"),
         details |-> Obj([scoringPlayerId |-> Num(8479318), assist1PlayerId |-> Num(8478483),
                          awayScore |-> Num(1), homeScore |-> Num(0)])])

PlayBare == Obj([typeDescKey |-> Str("goal")])

GameRoster ==
    Arr(<< Obj([playerId |-> Num(8479318), firstName |-> Obj([default |-> Str("Auston")]),
                lastName |-> Obj([default |-> Str("Matthews")])]),
           Obj([playerId |-> Num(8470638), firstName |-> Obj([default |-> Str("Patrice")]),
                lastName |-> Obj([default |-> Str("Bergeron")])]) >>)

GameOf(plays) ==
    Obj([awayTeam |-> Obj([placeName |-> Obj([default |-> Str("Toronto")]),
                           commonName |-> Obj([default |-> Str("Maple Leafs")]),
                           score |-> Num(1)]),
         homeTeam |-> Obj([placeName |-> Obj([default |-> Str("Boston")]),
                           commonName |-> Obj([default |-> Str("Bruins")])]),
         gameDate |-> Str("2023-11-02"), gameState |-> Str("OFF"),
         rosterSpots |-> GameRoster, plays |-> plays,
         summary |-> Obj([byPeriod |-> Arr(<<Obj([periodDescriptor |-> PlayPeriod,
                                                  away |-> Obj([shotsOnGoal |-> Num(9),
                                                                goals |-> Num(1)])])>>),
                          totals |-> Obj([away |-> Obj([goals |-> Num(1)])])])])

PlayByPlayDocs ==
    { EmptyObject,
      Obj([plays |-> EmptyArray]),
      Obj([plays |-> Obj([total |-> Num(3)])]),
      Obj([plays |-> Arr(<<PlayBare, PlayBare, PlayBare>>)]),
      Obj([plays |-> Arr(<<PlayGoal, Null>>)]),
      GameOf(Arr(<<PlayPeriodStart, PlayFaceoff, PlayShot, PlayHit, PlayGoal>>)),
      GameOf(Arr(<<PlayShot, PlayGoal, PlayShot, PlayGoal>>)) }

GameIdInputs   == {"2023020204"}
MaxEventsInputs == {0, 1, 2, 3, 50}
FilterInputs   == {Undef, Str(""), Str("goal"), Str("GOAL"), Str("hit"), Str("shot")}

\* The handler is entered and runs to its await.
GetGamePlayByPlayEntered(gameId, maxEvents, filterByType, ups) ==
    /\ args' = [tool |-> "get-game-play-by-play", gameId |-> gameId,
                maxEvents |-> maxEvents, filterByType |-> filterByType]
    /\ upstream' = ups
    /\ fetches' = <<PlayByPlayUrl(gameId)>>
    /\ pc' = "plays_fetch"
    /\ UNCHANGED <<lastOutcome, idx, teamData, playerData, standingsData, result,
                   errorMessages, statsData, teamName, teamAbbrev, lookupUrls,
                   response>>
    /\ UNCHANGED sideVars

CallGetGamePlayByPlay ==
    /\ pc = "idle"
    /\ \E gameId \in GameIdInputs, maxEvents \in MaxEventsInputs,
          filterByType \in FilterInputs :
         \E doc \in PlayByPlayDocs \cup {Down} :
            GetGamePlayByPlayEntered(gameId, maxEvents, filterByType,
                                     (PlayByPlayUrl(gameId) :> doc))

\* The resumption after `await makeNHLRequest(playByPlayUrl)`: the catch
\* clause, the null check, or the text.
PlayByPlayStep ==
    /\ pc = "plays_fetch"
    /\ \E o \in Outcomes(fetches[1]) :
       \E req \in {makeNHLRequest(o)} :
         /\ lastOutcome' = OutcomeKind(o)
         /\ IF ~req.ok
            THEN response' = <<PlayByPlayErrorText(req.e)>> /\ pc' = "returned"
            ELSE IF ~Truthy(req.v)
            THEN response' = <<PlayByPlayFailedText>> /\ pc' = "returned"
            ELSE \E out \in {RenderPlayByPlay(req.v, args.gameId, args.maxEvents,
                                              args.filterByType)} :
                    IF out.ok
                    THEN response' = out.v /\ pc' = "returned"
                    ELSE response' = NoResponse /\ pc' = "threw"
    /\ UNCHANGED <<args, upstream, fetches, idx, teamData, playerData,
                   standingsData, result, errorMessages, statsData, teamName,
                   teamAbbrev, lookupUrls>>
    /\ UNCHANGED sideVars

NextPlayByPlay ==
    \/ CallGetGamePlayByPlay
    \/ PlayByPlayStep
    \/ Settle

SpecPlayByPlay == Init /\ [][NextPlayByPlay]_vars

InPlayByPlay == args.tool = "get-game-play-by-play"

\* The event rows of the text returned: the lines between the header of
\* the table and the game summary.
EventRowsShown ==
    LET Least(s) == CHOOSE i \in s : \A j \in s : i <= j
        Between(h, g) == SubSeq(response, Least(h) + 2, Least(g) - 2)
    IN IF \E i \in DOMAIN response : response[i] = PlayTableHeader[1]
       THEN Between({i \in DOMAIN response : response[i] = PlayTableHeader[1]},
                    {i \in DOMAIN response : response[i] = "## Game Summary"})
       ELSE <<>>

\* The plays of the document served that pass the filter asked for, in
\* the order of the document.
PlaysAskedFor ==
    LET doc == Served(PlayByPlayUrl(args.gameId))
        Passes(play) ==
            \/ ~Truthy(args.filterByType)
            \/ TypeIncludes(LowerCaseOf(Get(play, "typeDescKey").s),
                            LowerCaseOf(args.filterByType.s))
        plays == Get(doc, "plays")
    IN IF doc = Down \/ plays.t /= "array" THEN <<>>
       ELSE SelectSeq(plays.e, LAMBDA play : ~Nullish(play) /\ Passes(play))

\* C29: with maxEvents > 0 the text of get-game-play-by-play holds at most
\* maxEvents event rows, with maxEvents = 0 one row for every event; the
\* rows are those of the first events, in upstream order, of the plays
\* that pass the type filter.
C29_AtMostMaxEvents ==
    (InPlayByPlay /\ pc = "returned") =>
        LET rows == EventRowsShown
            doc == Served(PlayByPlayUrl(args.gameId))
        IN /\ args.maxEvents > 0 => Len(rows) <= args.maxEvents
           /\ args.maxEvents = 0 => Len(rows) = Len(PlaysAskedFor)
           /\ Len(rows) <= Len(PlaysAskedFor)
           /\ \A i \in DOMAIN rows :
                 rows[i] = PlayRow(PlaysAskedFor[i], Get(doc, "rosterSpots"),
                                   GameTeamName(Get(doc, "awayTeam"), "Away Team"),
                                   GameTeamName(Get(doc, "homeTeam"), "Home Team")).v

\* A game of five events, two of them passing the filter "goal", has been
\* rendered with maxEvents 1: one row, that of the shot on goal.
C29_Witness ==
    /\ InPlayByPlay
    /\ pc = "returned"
    /\ args.maxEvents = 1
    /\ args.filterByType = Str("GOAL")
    /\ Len(PlaysAskedFor) = 2
    /\ Len(EventRowsShown) = 1
    /\ EventRowsShown[1] = "| 1 REG | 03:12 | Shot On Goal | Shot by Auston Matthews (wrist) |"

-----------------------------------------------------------------------------
(***************************************************************************)
(* How a query ends.                                                       *)
(***************************************************************************)
\* The most fetches a query may issue: one for each configured source,
\* and the fetches after the loop (the club stats of a team; the game log
\* of a player, the team directories and the roster for the team's name).
FetchBound ==
    CASE InTeam    -> Len(TeamSourceUrls) + 1
      [] InPlayer  -> Len(PlayerEndpoints(args.playerId)) + 1 + Len(TeamUrls) + 1
      [] InLeaders -> Len(LeadersEndpoints(args.category, args.limit))

\* C30: a get-team, get-player or get-skater-leaders query ends with a
\* response, the text of the record or the failure message, whatever the
\* fetches do and whatever the documents look like: the handler never ends
\* by an exception, and it never issues more fetches than it has sources
\* and enrichment fetches.
C30_QueryEndsWithResponse ==
    (InTeam \/ InPlayer \/ InLeaders) =>
        /\ pc /= "threw"
        /\ Len(fetches) <= FetchBound
        /\ pc = "returned" => response /= NoResponse

=============================================================================
